---- MODULE Spec2Model ----
(***************************************************************************)
(* Verification model of the trustify ingestion core:                      *)
(*   - CveLoader::load      (modules/ingestor/src/service/advisory/cve)    *)
(*   - Format::from_bytes   (modules/ingestor/src/service/format.rs)       *)
(*   - CveWalker, CveHandler (modules/importer/src/runner/cve/walker.rs)   *)
(* The graph store behind CveLoader (Graph, its transaction and its        *)
(* upsert/link/description operations) is not part of the sources at hand; *)
(* it is modelled from the specification's contract of the Graph           *)
(* Transaction Facade (spec section 4.4).                                  *)
(***************************************************************************)
EXTENDS Integers, Sequences, FiniteSets, Bags, TLC

VARIABLES
    db,         \* the committed graph store
    pc,         \* per caller: position inside CveLoader::load
    call,       \* per caller: the arguments of the running load
    tx,         \* per caller: operations issued on the open transaction
    ret,        \* per caller: what the last load returned
    loads,      \* number of load calls started so far
    serial,     \* history: the store obtained by running the committed loads one by one
    latest,     \* history: per (vulnerability, advisory) the entries of the last committed load
    okCount,    \* history: per source document, the number of committed loads
    buf,        \* the byte buffer handed to Format::from_bytes
    fpc,        \* position inside Format::from_bytes
    probed,     \* the probes from_bytes has called so far, in order
    ea,         \* from_bytes: the advisory family's failure message
    es,         \* from_bytes: the SBOM family's failure message
    fresult,    \* what from_bytes returned
    head,       \* corpus: the newest revision of the history
    changed,    \* corpus: per file, the revision of its last change (0: not there)
    wpc,        \* walker: "idle", "dispatching" or "done"
    token,      \* the continuation the caller passed to the running walk
    cfg,        \* handler: the years allow-set and the start year
    queue,      \* walker: the files still to be dispatched, in order
    visited,    \* walker: the files CveHandler::process was called on
    delivered,  \* callbacks: the files handed to Callbacks::process
    errors,     \* callbacks: the loading_error calls, in order
    wresult,    \* what CveWalker::run returned
    cancel,     \* a cancellation request is pending
    last,       \* history: what happened on the file dispatched last
    ioFailed,   \* history: the files whose read failed
    cancelAt,   \* history: how many files had been dispatched when cancel was raised
    issued,     \* history: the continuations earlier walks returned
    icall,      \* the arguments of the last Format::load (or legacy load) call
    ipc,        \* Format::load: "idle" or "loader" (awaiting the loader it invoked)
    iresult,    \* what the last call returned
    invoked,    \* the loaders the last call invoked
    itx,        \* the transactions the loaders other than CveLoader opened in the last call
    ingested,   \* the documents the loaders other than CveLoader have committed
    ipre,       \* history: the stores and the load count when the last call began
    icount,     \* number of calls so far
    env,        \* the process environment
    aiService,  \* the AiService (its llm, llm_info and tools)
    aipc,       \* "start" before AiService::new, "ready" after
    areq,       \* the request of the last completions call
    aresult,    \* what the last completions call returned
    invokes,    \* history: how often the last completions call invoked the model
    chats,      \* number of completions calls so far
    dcall,      \* digest stream: the entry point called and the byte source it was given
    dpc,        \* digest stream: position inside the entry point
    rpos,       \* digest stream: number of bytes the source has delivered
    hashed,     \* digest stream: the bytes fed into the running hash
    eof,        \* digest stream: the source has reported its end
    pstate,     \* the JSON parser: before or after the document value
    hashes,    \* the digest set the entry point obtained, if it asked for one
    dresult,    \* what the entry point returned
    dcount,     \* number of entry-point calls so far
    tdb,        \* the vulnerabilities the VulnerabilityService knows
    tin,        \* the input of the last CVEInfo::run
    tresult,    \* what the last CVEInfo::run returned
    tcount      \* number of CVEInfo::run calls so far

loaderVars == <<db, pc, call, tx, ret, loads, serial, latest, okCount>>

formatVars == <<buf, fpc, probed, ea, es, fresult>>

walkerVars ==
    <<head, changed, wpc, token, cfg, queue, visited, delivered, errors, wresult,
      cancel, last, ioFailed, cancelAt, issued>>

ingestVars == <<icall, ipc, iresult, invoked, itx, ingested, ipre, icount>>

aiVars == <<env, aiService, aipc, areq, aresult, invokes, chats>>

digestVars == <<dcall, dpc, rpos, hashed, eof, pstate, hashes, dresult, dcount>>

toolVars == <<tdb, tin, tresult, tcount>>

vars == <<loaderVars, formatVars, walkerVars, ingestVars, aiVars, digestVars, toolVars>>

(***************************************************************************)
(* Bounds                                                                  *)
(***************************************************************************)
MaxLoads == 3

MaxEntries == 3

(***************************************************************************)
(* Option<T>: None is the empty sequence, Some(x) the one-element sequence *)
(***************************************************************************)
None == <<>>

Some(x) == <<x>>

Range(s) == {s[i] : i \in DOMAIN s}

RECURSIVE SeqToBag(_)
SeqToBag(s) ==
    IF s = <<>> THEN EmptyBag
    ELSE SetToBag({Head(s)}) (+) SeqToBag(Tail(s))

BagSize(b) == BagCardinality(b)

(***************************************************************************)
(* Timestamp::assume_utc: a naive date-time becomes an offset date-time    *)
(* at offset UTC.                                                          *)
(***************************************************************************)
assume_utc(t) == [datetime |-> t, offset |-> "UTC"]

MapAssumeUtc(o) == IF o = None THEN None ELSE Some(assume_utc(o[1]))

(***************************************************************************)
(* Source documents.  A document is a byte buffer; document() parses it    *)
(* into a Cve record and hashes the very same bytes.                       *)
(***************************************************************************)
SourceBytes == {"b1", "b2", "b3", "b4"}

Desc(l, v) == [language |-> l, value |-> v]

Published(id, title, pub, upd, assigned, descriptions, problem_types) ==
    [state |-> "PUBLISHED", id |-> id, title |-> title,
     date_published |-> pub, date_updated |-> upd,
     date_assigned |-> assigned, date_rejected |-> None,
     descriptions |-> descriptions, rejected_reasons |-> <<>>,
     problem_types |-> problem_types, short_name |-> Some("mitre")]

Rejected(id, pub, upd, rejected, reasons) ==
    [state |-> "REJECTED", id |-> id, title |-> None,
     date_published |-> pub, date_updated |-> upd,
     date_assigned |-> None, date_rejected |-> rejected,
     descriptions |-> <<>>, rejected_reasons |-> reasons,
     problem_types |-> <<>>, short_name |-> None]

\* serde_json::from_reader: the Cve record a byte buffer deserializes to
ParseCve(b) ==
    CASE b = "b1" ->
           Published("CVE-1", Some("t1"), Some(1), Some(1), Some(1),
                     <<Desc("en", "x1")>>, << <<Some("CWE-79")>> >>)
      [] b = "b2" ->
           Published("CVE-1", Some("t2"), Some(1), Some(2), Some(1),
                     <<Desc("en", "x2"), Desc("es", "y2")>>,
                     << <<None, Some("CWE-20")>>, <<Some("CWE-79")>> >>)
      [] b = "b3" ->
           Rejected("CVE-1", Some(1), Some(3), Some(3), <<Desc("en", "r3")>>)
      [] b = "b4" ->
           Published("CVE-2", None, None, Some(2), None,
                     <<Desc("en", "x1"), Desc("en", "x4")>>, <<>>)

\* HashingRead::finish: the SHA-256 of the bytes read (distinct buffers,
\* distinct digests)
Sha256(b) ==
    CASE b = "b1" -> "0690"
      [] b = "b2" -> "d113"
      [] b = "b3" -> "7a3c"
      [] b = "b4" -> "e5f1"

document(b) == [cve |-> ParseCve(b), digests |-> [sha256 |-> Sha256(b)]]

\* the labels each caller passes to load
LabelInput(p) ==
    IF p = "c1" THEN {<<"file", "a.json">>} ELSE {<<"source", "walker">>, <<"type", "osv">>}

\* Labels::add: set key k to v, replacing a previous value of k
LabelsAdd(labels, k, v) == {kv \in labels : kv[1] # k} \cup {<<k, v>>}

Procs == {"c1", "c2"}

(***************************************************************************)
(* CveLoader::load, the values it derives from the record                  *)
(***************************************************************************)
\* .flat_map(|pt| pt.descriptions.iter()): the problem-type descriptions in order
RECURSIVE FlatMapDescriptions(_)
FlatMapDescriptions(problem_types) ==
    IF problem_types = <<>> THEN <<>>
    ELSE Head(problem_types) \o FlatMapDescriptions(Tail(problem_types))

\* .flat_map(|desc| desc.cwe_id.clone()): an absent cwe_id contributes nothing
RECURSIVE FlatMapCweId(_)
FlatMapCweId(descs) ==
    IF descs = <<>> THEN <<>>
    ELSE Head(descs) \o FlatMapCweId(Tail(descs))

CollectCwes(problem_types) ==
    LET cwes == FlatMapCweId(FlatMapDescriptions(problem_types))
    IN  IF cwes = <<>> THEN None ELSE Some(cwes)

\* A plausible slip: the match on the record state is missing and every record
\* is read the way a published one is.
ExtractIgnoresState(cve) ==
    [title |-> cve.title,
     assigned |-> MapAssumeUtc(cve.date_assigned),
     withdrawn |-> None,
     descriptions |-> cve.descriptions,
     cwe |-> CollectCwes(cve.problem_types),
     org_name |-> cve.short_name]

\* the match on the record state: (title, assigned, withdrawn, descriptions, cwe, org_name)
Extract(cve) ==
    IF cve.state = "REJECTED"
    THEN [title |-> None,
          assigned |-> None,
          withdrawn |-> MapAssumeUtc(cve.date_rejected),
          descriptions |-> cve.rejected_reasons,
          cwe |-> None,
          org_name |-> cve.short_name]
    ELSE [title |-> cve.title,
          assigned |-> MapAssumeUtc(cve.date_assigned),
          withdrawn |-> None,
          descriptions |-> cve.descriptions,
          cwe |-> CollectCwes(cve.problem_types),
          org_name |-> cve.short_name]

PublishedOf(cve) == MapAssumeUtc(cve.date_published)

ModifiedOf(cve) == MapAssumeUtc(cve.date_updated)

VulnerabilityInformation(cve) ==
    [title |-> Extract(cve).title,
     published |-> PublishedOf(cve),
     modified |-> ModifiedOf(cve),
     withdrawn |-> Extract(cve).withdrawn,
     cwes |-> Extract(cve).cwe]

\* A plausible slip: the push sits inside the `if description.language == "en"`.
EntriesEnglishOnly(cve) ==
    SelectSeq([i \in DOMAIN Extract(cve).descriptions |->
                 <<Extract(cve).descriptions[i].language, Extract(cve).descriptions[i].value>>],
              LAMBDA e : e[1] = "en")

\* the loop over descriptions: every (language, value) pair, in order
Entries(cve) ==
    [i \in DOMAIN Extract(cve).descriptions |->
        <<Extract(cve).descriptions[i].language, Extract(cve).descriptions[i].value>>]

\* the loop over descriptions: the value of the last entry whose language is "en"
EnglishDescription(cve) ==
    LET ds == Extract(cve).descriptions
        en == {i \in DOMAIN ds : ds[i].language = "en"}
    IN  IF en = {} THEN None
        ELSE Some(ds[CHOOSE i \in en : \A j \in en : j <= i].value)

AdvisoryInformation(cve) ==
    [title |-> Extract(cve).title,
     issuer |-> Extract(cve).org_name,
     published |-> PublishedOf(cve),
     modified |-> ModifiedOf(cve),
     withdrawn |-> Extract(cve).withdrawn]

AdvisoryVulnerabilityInformation(cve) ==
    [title |-> Extract(cve).title,
     summary |-> None,
     description |-> EnglishDescription(cve),
     discovery_date |-> Extract(cve).assigned,
     release_date |-> PublishedOf(cve),
     cwes |-> Extract(cve).cwe]

\* A plausible slip: the loader hands over Digests::default() instead of the
\* digests of the document.
AdvisoryDigestArgDefault(digests) == ""

\* the digest the loader hands to ingest_advisory
AdvisoryDigestArg(digests) == digests.sha256

(***************************************************************************)
(* The graph store (Graph Transaction Facade, spec 4.4).                   *)
(*   vulnerability             rows keyed by identifier                    *)
(*   advisory                  rows keyed by (identifier, digest)          *)
(*   advisory_vulnerability    link rows keyed by (advisory, vulnerability)*)
(*   vulnerability_description one row per stored description              *)
(***************************************************************************)
EmptyGraph ==
    [vulnerability |-> {},
     advisory |-> {},
     advisory_vulnerability |-> {},
     vulnerability_description |-> EmptyBag]

\* read-side lookup by identifier
get_vulnerability(g, id) == {v \in g.vulnerability : v.id = id}

\* read-side lookup by digest
get_advisory_by_digest(g, sha256) == {a \in g.advisory : a.sha256 = sha256}

\* the stored descriptions of a vulnerability owned by one advisory
DescriptionsOf(g, vulnerability_id, advisory_id) ==
    LET rows == {r \in BagToSet(g.vulnerability_description) :
                    r.vulnerability_id = vulnerability_id /\ r.advisory_id = advisory_id}
    IN  [r \in rows |-> g.vulnerability_description[r]]

DescriptionRows(vulnerability_id, advisory_id, entries) ==
    SeqToBag([i \in DOMAIN entries |->
                [vulnerability_id |-> vulnerability_id, advisory_id |-> advisory_id,
                 lang |-> entries[i][1], description |-> entries[i][2]]])

\* the operations a transaction records
OpIngestVulnerability(id, information) ==
    [op |-> "ingest_vulnerability", vulnerability_id |-> id, advisory_id |-> 0,
     arg |-> information]

OpInsertAdvisory(uuid, identifier, sha256, information, labels) ==
    [op |-> "insert_advisory", vulnerability_id |-> identifier, advisory_id |-> uuid,
     arg |-> [sha256 |-> sha256, information |-> information, labels |-> labels]]

OpLink(uuid, id, information) ==
    [op |-> "link_to_vulnerability", vulnerability_id |-> id, advisory_id |-> uuid,
     arg |-> information]

OpDropDescriptions(id, uuid) ==
    [op |-> "drop_descriptions_for_advisory", vulnerability_id |-> id,
     advisory_id |-> uuid, arg |-> None]

OpAddDescriptions(id, uuid, entries) ==
    [op |-> "add_descriptions", vulnerability_id |-> id, advisory_id |-> uuid,
     arg |-> entries]

\* the effect of one recorded operation on a store
Apply(o, g) ==
    CASE o.op = "ingest_vulnerability" ->
           [g EXCEPT !.vulnerability =
               {v \in @ : v.id # o.vulnerability_id}
               \cup {[id |-> o.vulnerability_id,
                      title |-> o.arg.title, published |-> o.arg.published,
                      modified |-> o.arg.modified, withdrawn |-> o.arg.withdrawn,
                      cwes |-> o.arg.cwes]}]
      [] o.op = "insert_advisory" ->
           [g EXCEPT !.advisory =
               @ \cup {[id |-> o.advisory_id, identifier |-> o.vulnerability_id,
                        sha256 |-> o.arg.sha256,
                        title |-> o.arg.information.title,
                        issuer |-> o.arg.information.issuer,
                        published |-> o.arg.information.published,
                        modified |-> o.arg.information.modified,
                        withdrawn |-> o.arg.information.withdrawn,
                        labels |-> o.arg.labels]}]
      [] o.op = "link_to_vulnerability" ->
           [g EXCEPT !.advisory_vulnerability =
               {l \in @ : ~(l.advisory_id = o.advisory_id
                            /\ l.vulnerability_id = o.vulnerability_id)}
               \cup {[advisory_id |-> o.advisory_id,
                      vulnerability_id |-> o.vulnerability_id,
                      information |-> o.arg]}]
      [] o.op = "drop_descriptions_for_advisory" ->
           [g EXCEPT !.vulnerability_description =
               @ (-) DescriptionsOf(g, o.vulnerability_id, o.advisory_id)]
      [] o.op = "add_descriptions" ->
           [g EXCEPT !.vulnerability_description =
               @ (+) DescriptionRows(o.vulnerability_id, o.advisory_id, o.arg)]

RECURSIVE ApplyAll(_, _)
ApplyAll(ops, g) ==
    IF ops = <<>> THEN g ELSE ApplyAll(Tail(ops), Apply(Head(ops), g))

\* A plausible slip: the store runs the transactions at read-uncommitted, and
\* a transaction also sees what the other open transactions have written.
TxViewDirty(p) ==
    LET others == {q \in Procs : q # p}
        q == CHOOSE q \in others : TRUE
    IN  ApplyAll(tx[p], ApplyAll(tx[q], db))

\* a transaction sees the committed store and its own operations
TxView(p) == ApplyAll(tx[p], db)

\* key violation at commit: an advisory with the digest was committed meanwhile
Conflict(ops, g) ==
    \E i \in DOMAIN ops :
        /\ ops[i].op = "insert_advisory"
        /\ get_advisory_by_digest(g, ops[i].arg.sha256) # {}

UuidPool == 1..MaxLoads

UsedUuids ==
    {a.id : a \in db.advisory}
    \cup UNION {{tx[p][i].advisory_id : i \in DOMAIN tx[p]} : p \in Procs}

\* Uuid::new_v4: an identifier no row and no open transaction holds (the
\* least one: the store's contents do not depend on which fresh value it is)
FreshUuid == CHOOSE u \in UuidPool \ UsedUuids : \A w \in UuidPool \ UsedUuids : u <= w

(***************************************************************************)
(* CveLoader::load as a process: one step per awaited graph operation      *)
(***************************************************************************)
NoCall == [bytes |-> "", labels |-> {}, advisory |-> 0]

\* status, id and document_id are the Result<IngestResult, Error> of the call;
\* bytes, at and retry record which document it was, the step that failed, and
\* whether the call repeats this caller's failed load of the same document
NoResult ==
    [status |-> "none", id |-> 0, document_id |-> "", bytes |-> "", at |-> "",
     retry |-> FALSE]

Cve(p) == document(call[p].bytes).cve

Digests(p) == document(call[p].bytes).digests

Steps ==
    {"transaction", "ingest_vulnerability", "ingest_advisory", "link_to_vulnerability",
     "drop_descriptions_for_advisory", "add_descriptions", "commit"}

LoaderInit ==
    /\ db = EmptyGraph
    /\ pc = [p \in Procs |-> "idle"]
    /\ call = [p \in Procs |-> NoCall]
    /\ tx = [p \in Procs |-> <<>>]
    /\ ret = [p \in Procs |-> NoResult]
    /\ loads = 0
    /\ serial = EmptyGraph
    /\ latest = {}
    /\ okCount = [b \in SourceBytes |-> 0]

history == <<serial, latest, okCount>>

\* load(labels, cve, digests): id, labels.add("type", "cve")
LoadCall(p, b) ==
    /\ pc[p] = "idle"
    /\ loads < MaxLoads
    /\ loads' = loads + 1
    /\ call' = [call EXCEPT ![p] =
                  [bytes |-> b, labels |-> LabelsAdd(LabelInput(p), "type", "cve"),
                   advisory |-> 0]]
    /\ ret' = [ret EXCEPT ![p] =
                 [NoResult EXCEPT !.bytes = b,
                                  !.retry = (ret[p].status = "Err" /\ ret[p].bytes = b)]]
    /\ pc' = [pc EXCEPT ![p] = "transaction"]
    /\ UNCHANGED <<db, tx, history>>

\* a caller calls CveLoader::load directly
Load(p, b) ==
    /\ LoadCall(p, b)
    /\ UNCHANGED <<formatVars, walkerVars, ingestVars, aiVars, digestVars, toolVars>>

\* let tx = self.graph.transaction().await?
Transaction(p) ==
    /\ pc[p] = "transaction"
    /\ tx' = [tx EXCEPT ![p] = <<>>]
    /\ pc' = [pc EXCEPT ![p] = "ingest_vulnerability"]
    /\ UNCHANGED <<db, call, ret, loads, history>>
    /\ UNCHANGED <<formatVars, walkerVars, ingestVars, aiVars, digestVars, toolVars>>

\* self.graph.ingest_vulnerability(id, information, &tx).await?
IngestVulnerability(p) ==
    /\ pc[p] = "ingest_vulnerability"
    /\ tx' = [tx EXCEPT ![p] =
                Append(@, OpIngestVulnerability(Cve(p).id, VulnerabilityInformation(Cve(p))))]
    /\ pc' = [pc EXCEPT ![p] = "ingest_advisory"]
    /\ UNCHANGED <<db, call, ret, loads, history>>
    /\ UNCHANGED <<formatVars, walkerVars, ingestVars, aiVars, digestVars, toolVars>>

\* Graph::ingest_advisory: the advisory stored under the digest if there is
\* one, a new row otherwise
ingest_advisory(p, id, labels, sha256, information) ==
    LET found == get_advisory_by_digest(TxView(p), sha256)
    IN  IF found # {}
        THEN /\ call' = [call EXCEPT ![p].advisory = (CHOOSE a \in found : TRUE).id]
             /\ UNCHANGED tx
        ELSE /\ call' = [call EXCEPT ![p].advisory = FreshUuid]
             /\ tx' = [tx EXCEPT ![p] =
                         Append(@, OpInsertAdvisory(FreshUuid, id, sha256, information, labels))]

\* self.graph.ingest_advisory(id, labels, digests, information, &tx).await?
IngestAdvisory(p) ==
    /\ pc[p] = "ingest_advisory"
    /\ ingest_advisory(p, Cve(p).id, call[p].labels, AdvisoryDigestArg(Digests(p)),
                       AdvisoryInformation(Cve(p)))
    /\ pc' = [pc EXCEPT ![p] = "link_to_vulnerability"]
    /\ UNCHANGED <<db, ret, loads, history>>
    /\ UNCHANGED <<formatVars, walkerVars, ingestVars, aiVars, digestVars, toolVars>>

\* A plausible slip: the advisory is never linked to the vulnerability.
LinkToVulnerabilitySkipped(p) ==
    /\ pc[p] = "link_to_vulnerability"
    /\ pc' = [pc EXCEPT ![p] = "drop_descriptions_for_advisory"]
    /\ UNCHANGED <<db, tx, call, ret, loads, history>>
    /\ UNCHANGED <<formatVars, walkerVars, ingestVars, aiVars, digestVars, toolVars>>

\* advisory.link_to_vulnerability(id, Some(information), &tx).await?
LinkToVulnerability(p) ==
    /\ pc[p] = "link_to_vulnerability"
    /\ tx' = [tx EXCEPT ![p] =
                Append(@, OpLink(call[p].advisory, Cve(p).id,
                                 AdvisoryVulnerabilityInformation(Cve(p))))]
    /\ pc' = [pc EXCEPT ![p] = "drop_descriptions_for_advisory"]
    /\ UNCHANGED <<db, call, ret, loads, history>>
    /\ UNCHANGED <<formatVars, walkerVars, ingestVars, aiVars, digestVars, toolVars>>

\* A plausible slip: the drop step is missing.
DropDescriptionsSkipped(p) ==
    /\ pc[p] = "drop_descriptions_for_advisory"
    /\ pc' = [pc EXCEPT ![p] = "add_descriptions"]
    /\ UNCHANGED <<db, tx, call, ret, loads, history>>
    /\ UNCHANGED <<formatVars, walkerVars, ingestVars, aiVars, digestVars, toolVars>>

\* A plausible slip: the drop names Uuid::nil() instead of the advisory's id.
DropDescriptionsNilAdvisory(p) ==
    /\ pc[p] = "drop_descriptions_for_advisory"
    /\ tx' = [tx EXCEPT ![p] = Append(@, OpDropDescriptions(Cve(p).id, 0))]
    /\ pc' = [pc EXCEPT ![p] = "add_descriptions"]
    /\ UNCHANGED <<db, call, ret, loads, history>>
    /\ UNCHANGED <<formatVars, walkerVars, ingestVars, aiVars, digestVars, toolVars>>

\* A plausible slip: the drop removes the descriptions of the vulnerability
\* whichever advisory owns them.
DropDescriptionsAllAdvisories(p) ==
    /\ pc[p] = "drop_descriptions_for_advisory"
    /\ tx' = [tx EXCEPT ![p] =
                @ \o SelectSeq([u \in 1..MaxLoads |-> OpDropDescriptions(Cve(p).id, u)],
                               LAMBDA o : o.advisory_id \in {a.id : a \in db.advisory}
                                                              \cup {call[p].advisory})]
    /\ pc' = [pc EXCEPT ![p] = "add_descriptions"]
    /\ UNCHANGED <<db, call, ret, loads, history>>
    /\ UNCHANGED <<formatVars, walkerVars, ingestVars, aiVars, digestVars, toolVars>>

\* vulnerability.drop_descriptions_for_advisory(advisory.advisory.id, &tx).await?
DropDescriptions(p) ==
    /\ pc[p] = "drop_descriptions_for_advisory"
    /\ tx' = [tx EXCEPT ![p] = Append(@, OpDropDescriptions(Cve(p).id, call[p].advisory))]
    /\ pc' = [pc EXCEPT ![p] = "add_descriptions"]
    /\ UNCHANGED <<db, call, ret, loads, history>>
    /\ UNCHANGED <<formatVars, walkerVars, ingestVars, aiVars, digestVars, toolVars>>

\* A plausible slip: the insert names Uuid::nil() instead of the id of the
\* advisory that ingest_advisory returned.
AddDescriptionsNilAdvisory(p) ==
    /\ pc[p] = "add_descriptions"
    /\ tx' = [tx EXCEPT ![p] =
                Append(@, OpAddDescriptions(Cve(p).id, 0, Entries(Cve(p))))]
    /\ pc' = [pc EXCEPT ![p] = "commit"]
    /\ UNCHANGED <<db, call, ret, loads, history>>
    /\ UNCHANGED <<formatVars, walkerVars, ingestVars, aiVars, digestVars, toolVars>>

\* vulnerability.add_descriptions(advisory.advisory.id, entries, &tx).await?
AddDescriptions(p) ==
    /\ pc[p] = "add_descriptions"
    /\ tx' = [tx EXCEPT ![p] =
                Append(@, OpAddDescriptions(Cve(p).id, call[p].advisory, Entries(Cve(p))))]
    /\ pc' = [pc EXCEPT ![p] = "commit"]
    /\ UNCHANGED <<db, call, ret, loads, history>>
    /\ UNCHANGED <<formatVars, walkerVars, ingestVars, aiVars, digestVars, toolVars>>

\* the (language, text) pairs a record supplies: its rejection reasons when it
\* is rejected, its descriptions when it is published (spec 4.3, steps 2 and 4)
SuppliedEntries(cve) ==
    LET ds == IF cve.state = "REJECTED" THEN cve.rejected_reasons ELSE cve.descriptions
    IN  [i \in DOMAIN ds |-> <<ds[i].language, ds[i].value>>]

\* One load run alone on store g to its successful end (spec 4.3, steps 3-8),
\* uuid being the identifier a new advisory row gets.  The reference the
\* history variable serial is built with.
LoadOnce(cve, sha256, labels, uuid, g) ==
    LET existing == {a \in g.advisory : a.sha256 = sha256}
        adv == IF existing # {} THEN (CHOOSE a \in existing : TRUE).id ELSE uuid
        vi == VulnerabilityInformation(cve)
        ai == AdvisoryInformation(cve)
        kept == {r \in BagToSet(g.vulnerability_description) :
                    ~(r.vulnerability_id = cve.id /\ r.advisory_id = adv)}
    IN  [vulnerability |->
            {v \in g.vulnerability : v.id # cve.id}
            \cup {[id |-> cve.id, title |-> vi.title, published |-> vi.published,
                   modified |-> vi.modified, withdrawn |-> vi.withdrawn, cwes |-> vi.cwes]},
         advisory |->
            IF existing # {} THEN g.advisory
            ELSE g.advisory
                 \cup {[id |-> uuid, identifier |-> cve.id, sha256 |-> sha256,
                        title |-> ai.title, issuer |-> ai.issuer, published |-> ai.published,
                        modified |-> ai.modified, withdrawn |-> ai.withdrawn,
                        labels |-> labels]},
         advisory_vulnerability |->
            {l \in g.advisory_vulnerability :
                ~(l.advisory_id = adv /\ l.vulnerability_id = cve.id)}
            \cup {[advisory_id |-> adv, vulnerability_id |-> cve.id,
                   information |-> AdvisoryVulnerabilityInformation(cve)]},
         vulnerability_description |->
            [r \in kept |-> g.vulnerability_description[r]]
            (+) DescriptionRows(cve.id, adv, SuppliedEntries(cve))]

\* tx.commit().await?; Ok(IngestResult { id, document_id, warnings: vec![] })
Commit(p) ==
    /\ pc[p] = "commit"
    /\ ~Conflict(tx[p], db)
    /\ db' = ApplyAll(tx[p], db)
    /\ ret' = [ret EXCEPT ![p].status = "Ok", ![p].id = call[p].advisory,
                          ![p].document_id = Cve(p).id]
    /\ serial' = LoadOnce(Cve(p), Digests(p).sha256, call[p].labels, call[p].advisory, serial)
    /\ latest' = {r \in latest : ~(r.vulnerability_id = Cve(p).id
                                    /\ r.advisory_id = call[p].advisory)}
                  \cup {[vulnerability_id |-> Cve(p).id, advisory_id |-> call[p].advisory,
                         entries |-> SuppliedEntries(Cve(p))]}
    /\ okCount' = [okCount EXCEPT ![call[p].bytes] = @ + 1]
    /\ tx' = [tx EXCEPT ![p] = <<>>]
    /\ call' = [call EXCEPT ![p] = NoCall]
    /\ pc' = [pc EXCEPT ![p] = "idle"]
    /\ UNCHANGED loads
    /\ UNCHANGED <<formatVars, walkerVars, ingestVars, aiVars, digestVars, toolVars>>

\* A plausible slip: the error of a graph operation is dropped instead of
\* being returned with `?`, and load goes on without that operation.
StorageErrorSwallowed(p) ==
    /\ pc[p] \in Steps \ {"transaction", "commit"}
    /\ pc' = [pc EXCEPT ![p] =
                CASE pc[p] = "ingest_vulnerability" -> "ingest_advisory"
                  [] pc[p] = "ingest_advisory" -> "link_to_vulnerability"
                  [] pc[p] = "link_to_vulnerability" -> "drop_descriptions_for_advisory"
                  [] pc[p] = "drop_descriptions_for_advisory" -> "add_descriptions"
                  [] pc[p] = "add_descriptions" -> "commit"]
    /\ UNCHANGED <<db, tx, call, ret, loads, history>>
    /\ UNCHANGED <<formatVars, walkerVars, ingestVars, aiVars, digestVars, toolVars>>

\* A plausible slip: the error path commits what the transaction holds so far
\* before it returns the error.
StorageErrorCommits(p) ==
    /\ pc[p] \in Steps
    /\ db' = ApplyAll(tx[p], db)
    /\ ret' = [ret EXCEPT ![p].status = "Err", ![p].document_id = Cve(p).id,
                          ![p].at = pc[p]]
    /\ tx' = [tx EXCEPT ![p] = <<>>]
    /\ call' = [call EXCEPT ![p] = NoCall]
    /\ pc' = [pc EXCEPT ![p] = "idle"]
    /\ UNCHANGED <<loads, history>>
    /\ UNCHANGED <<formatVars, walkerVars, ingestVars, aiVars, digestVars, toolVars>>

\* `?` on a failed graph operation (a storage error, or the key violation at
\* commit): load returns the error, the transaction is dropped uncommitted
StorageError(p) ==
    /\ pc[p] \in Steps
    /\ ret' = [ret EXCEPT ![p].status = "Err", ![p].document_id = Cve(p).id,
                          ![p].at = pc[p]]
    /\ tx' = [tx EXCEPT ![p] = <<>>]
    /\ call' = [call EXCEPT ![p] = NoCall]
    /\ pc' = [pc EXCEPT ![p] = "idle"]
    /\ UNCHANGED <<db, loads, history>>
    /\ UNCHANGED <<formatVars, walkerVars, ingestVars, aiVars, digestVars, toolVars>>

(***************************************************************************)
(* Format::from_bytes.  A byte buffer is described by what the parsers the *)
(* probes use make of it:                                                  *)
(*   syntax   "json": a JSON object, "yaml": a YAML mapping that is not    *)
(*            JSON, "xml": an XML document, "binary": bytes that are not   *)
(*            UTF-8                                                        *)
(*   entries  the members of the top-level object or mapping, in order     *)
(*   broken   the JSON text stops being JSON after the last entry          *)
(*   root     the name of the XML root element                             *)
(***************************************************************************)
Str(x) == [t |-> "str", s |-> x, keys |-> <<>>]

Num == [t |-> "num", s |-> "", keys |-> <<>>]

Obj(ks) == [t |-> "obj", s |-> "", keys |-> ks]

Member(k, v) == [key |-> k, value |-> v]

Members ==
    {Member("document", Obj(<<"csaf_version">>)), Member("document", Obj(<<"title">>)),
     Member("dataType", Str("CVE_RECORD")), Member("id", Str("RUSTSEC-2021-0079")),
     Member("spdxVersion", Str("SPDX-2.2")), Member("spdxVersion", Str("SPDX-2.3")),
     Member("spdxVersion", Str("SPDX-2.1")), Member("spdxVersion", Num),
     Member("specVersion", Str("1.3")), Member("specVersion", Str("1.4")),
     Member("specVersion", Str("1.5")), Member("specVersion", Str("1.6")),
     Member("coordinates", Obj(<<"type">>)), Member("name", Str("n"))}

MemberSeqs == UNION {[1..n -> Members] : n \in 0..MaxEntries}

Buffers ==
    {[syntax |-> "json", entries |-> e, broken |-> b, root |-> ""] :
        e \in MemberSeqs, b \in BOOLEAN}
    \cup {[syntax |-> "yaml", entries |-> e, broken |-> FALSE, root |-> ""] :
            e \in MemberSeqs \ {<<>>}}
    \cup {[syntax |-> "xml", entries |-> <<>>, broken |-> FALSE, root |-> r] :
            r \in {"Weakness_Catalog", "cvrfdoc"}}
    \cup {[syntax |-> "binary", entries |-> <<>>, broken |-> FALSE, root |-> ""]}

\* Result<T, Error>
Ok(v) == [ok |-> TRUE, value |-> v, kind |-> "", msg |-> <<>>]

Err(kind, msg) == [ok |-> FALSE, value |-> None, kind |-> kind, msg |-> msg]

\* the value tokens of a JSON text in reading order, each with its path of keys
RECURSIVE Tokens(_)
Tokens(entries) ==
    IF entries = <<>> THEN <<>>
    ELSE LET e == Head(entries)
         IN  (IF e.value.t = "obj"
              THEN [i \in DOMAIN e.value.keys |->
                       [path |-> <<e.key, e.value.keys[i]>>, value |-> Str("v")]]
              ELSE <<[path |-> <<e.key>>, value |-> e.value]>>)
             \o Tokens(Tail(entries))

\* Token::get::<String>().unwrap_or_default()
GetString(v) == IF v.t = "str" THEN v.s ELSE ""

\* masked(mask, bytes): the first token under the mask as a string, None when
\* the text ends without one, an error when the reader fails before one.  A
\* mask is the path of keys it selects (its depth is the length of the path).
masked(mask, b) ==
    IF b.syntax # "json" THEN Err("Generic", <<"parse error">>)
    ELSE LET toks == Tokens(b.entries)
             hits == {i \in DOMAIN toks : toks[i].path = mask}
         IN  IF hits # {}
             THEN Ok(Some(GetString(toks[CHOOSE i \in hits : \A j \in hits : i <= j].value)))
             ELSE IF b.broken THEN Err("Generic", <<"parse error">>)
             ELSE Ok(None)

IsSome(r) == r.ok /\ r.value # None

is_csaf(b) == Ok(IsSome(masked(<<"document", "csaf_version">>, b)))

is_cve(b) == Ok(IsSome(masked(<<"dataType">>, b)))

is_osv(b) == Ok(IsSome(masked(<<"id">>, b)))

\* is_spdx with the reader's error handed on instead of taken as "no match"
IsSpdxParseErrorFatal(b) ==
    LET m == masked(<<"spdxVersion">>, b)
    IN  IF IsSome(m) /\ m.value[1] \in {"SPDX-2.2", "SPDX-2.3"} THEN Ok(TRUE)
        ELSE IF IsSome(m)
        THEN Err("UnsupportedFormat",
                 <<"SPDX version ", m.value[1], " is unsupported; try 2.2 or 2.3">>)
        ELSE IF ~m.ok THEN Err("Generic", m.msg)
        ELSE Ok(FALSE)

is_spdx(b) ==
    LET m == masked(<<"spdxVersion">>, b)
    IN  IF IsSome(m) /\ m.value[1] \in {"SPDX-2.2", "SPDX-2.3"} THEN Ok(TRUE)
        ELSE IF IsSome(m)
        THEN Err("UnsupportedFormat",
                 <<"SPDX version ", m.value[1], " is unsupported; try 2.2 or 2.3">>)
        ELSE Ok(FALSE)

is_cyclonedx(b) ==
    LET m == masked(<<"specVersion">>, b)
    IN  IF IsSome(m) /\ m.value[1] \in {"1.3", "1.4", "1.5"} THEN Ok(TRUE)
        ELSE IF IsSome(m)
        THEN Err("UnsupportedFormat",
                 <<"CycloneDX version ", m.value[1], " is unsupported; try 1.3, 1.4, or 1.5">>)
        ELSE Ok(FALSE)

\* serde_yml::from_slice succeeds on a YAML mapping, and on a JSON text that
\* is complete
is_clearly_defined(b) ==
    IF /\ (b.syntax = "yaml" \/ (b.syntax = "json" /\ ~b.broken))
       /\ \E i \in DOMAIN b.entries : b.entries[i].key = "coordinates"
    THEN Ok(TRUE)
    ELSE Ok(FALSE)

is_cwe_catalog(b) ==
    IF b.syntax = "xml" THEN Ok(b.root = "Weakness_Catalog") ELSE Ok(FALSE)

AdvisoryUndetected ==
    <<"Unable to detect advisory format; only CSAF, CVE, and OSV are supported">>

SbomUndetected ==
    <<"Unable to detect SBOM format; only SPDX and CycloneDX are supported">>

\* the result of a family together with the probes it called, in order; `?`
\* returns a probe's error at once
AdvisoryFromBytesOsvFirst(b) ==
    IF is_csaf(b).value
    THEN [result |-> Ok("CSAF"), probes |-> <<"is_csaf">>]
    ELSE IF is_osv(b).value
    THEN [result |-> Ok("OSV"), probes |-> <<"is_csaf", "is_osv">>]
    ELSE IF is_cve(b).value
    THEN [result |-> Ok("CVE"), probes |-> <<"is_csaf", "is_osv", "is_cve">>]
    ELSE [result |-> Err("UnsupportedFormat", AdvisoryUndetected),
          probes |-> <<"is_csaf", "is_osv", "is_cve">>]

advisory_from_bytes(b) ==
    IF is_csaf(b).value
    THEN [result |-> Ok("CSAF"), probes |-> <<"is_csaf">>]
    ELSE IF is_cve(b).value
    THEN [result |-> Ok("CVE"), probes |-> <<"is_csaf", "is_cve">>]
    ELSE IF is_osv(b).value
    THEN [result |-> Ok("OSV"), probes |-> <<"is_csaf", "is_cve", "is_osv">>]
    ELSE [result |-> Err("UnsupportedFormat", AdvisoryUndetected),
          probes |-> <<"is_csaf", "is_cve", "is_osv">>]

sbom_from_bytes(b) ==
    IF ~is_spdx(b).ok
    THEN [result |-> is_spdx(b), probes |-> <<"is_spdx">>]
    ELSE IF is_spdx(b).value
    THEN [result |-> Ok("SPDX"), probes |-> <<"is_spdx">>]
    ELSE IF ~is_cyclonedx(b).ok
    THEN [result |-> is_cyclonedx(b), probes |-> <<"is_spdx", "is_cyclonedx">>]
    ELSE IF is_cyclonedx(b).value
    THEN [result |-> Ok("CycloneDX"), probes |-> <<"is_spdx", "is_cyclonedx">>]
    ELSE IF is_clearly_defined(b).value
    THEN [result |-> Ok("ClearlyDefined"),
          probes |-> <<"is_spdx", "is_cyclonedx", "is_clearly_defined">>]
    ELSE [result |-> Err("UnsupportedFormat", SbomUndetected),
          probes |-> <<"is_spdx", "is_cyclonedx", "is_clearly_defined">>]

NoFormatResult == [ok |-> FALSE, value |-> None, kind |-> "pending", msg |-> <<>>]

FormatIdle ==
    /\ buf = [syntax |-> "binary", entries |-> <<>>, broken |-> FALSE, root |-> ""]
    /\ fpc = "idle"
    /\ probed = <<>>
    /\ ea = <<>>
    /\ es = <<>>
    /\ fresult = NoFormatResult

FormatInit ==
    /\ buf \in Buffers
    /\ fpc = "advisory_from_bytes"
    /\ probed = <<>>
    /\ ea = <<>>
    /\ es = <<>>
    /\ fresult = NoFormatResult

\* match Self::advisory_from_bytes(bytes) { Err(UnsupportedFormat(ea)) => ..., x => x }
FromBytesAdvisory ==
    /\ fpc = "advisory_from_bytes"
    /\ LET r == advisory_from_bytes(buf)
       IN  /\ probed' = probed \o r.probes
           /\ IF ~r.result.ok /\ r.result.kind = "UnsupportedFormat"
              THEN /\ ea' = r.result.msg
                   /\ fpc' = "sbom_from_bytes"
                   /\ UNCHANGED fresult
              ELSE /\ fresult' = r.result
                   /\ fpc' = "done"
                   /\ UNCHANGED ea
    /\ UNCHANGED <<buf, es>>
    /\ UNCHANGED <<loaderVars, walkerVars, ingestVars, aiVars, digestVars, toolVars>>

\* match Self::sbom_from_bytes(bytes) { Err(UnsupportedFormat(es)) => ..., x => x }
FromBytesSbom ==
    /\ fpc = "sbom_from_bytes"
    /\ LET r == sbom_from_bytes(buf)
       IN  /\ probed' = probed \o r.probes
           /\ IF ~r.result.ok /\ r.result.kind = "UnsupportedFormat"
              THEN /\ es' = r.result.msg
                   /\ fpc' = "is_cwe_catalog"
                   /\ UNCHANGED fresult
              ELSE /\ fresult' = r.result
                   /\ fpc' = "done"
                   /\ UNCHANGED es
    /\ UNCHANGED <<buf, ea>>
    /\ UNCHANGED <<loaderVars, walkerVars, ingestVars, aiVars, digestVars, toolVars>>

\* A plausible slip: when no family matched, from_bytes answers with the
\* umbrella variant and leaves the resolution to the caller.
FromBytesFallbackUnknown ==
    /\ fpc = "is_cwe_catalog"
    /\ probed' = Append(probed, "is_cwe_catalog")
    /\ fresult' = IF buf.syntax = "xml" THEN Ok("CweCatalog") ELSE Ok("Unknown")
    /\ fpc' = "done"
    /\ UNCHANGED <<buf, ea, es>>
    /\ UNCHANGED <<loaderVars, walkerVars, ingestVars, aiVars, digestVars, toolVars>>

\* match Self::is_cwe_catalog(bytes) { Ok(_) => Ok(CweCatalog), Err(_) => Err(ea \n es) }
FromBytesCweCatalog ==
    /\ fpc = "is_cwe_catalog"
    /\ probed' = Append(probed, "is_cwe_catalog")
    /\ fresult' = IF is_cwe_catalog(buf).ok
                  THEN Ok("CweCatalog")
                  ELSE Err("UnsupportedFormat", ea \o <<"\n">> \o es)
    /\ fpc' = "done"
    /\ UNCHANGED <<buf, ea, es>>
    /\ UNCHANGED <<loaderVars, walkerVars, ingestVars, aiVars, digestVars, toolVars>>

FormatNext ==
    \/ FromBytesAdvisory
    \/ FromBytesSbom
    \/ FromBytesCweCatalog

(***************************************************************************)
(* Claims about Format::from_bytes, checked under SpecFormat               *)
(***************************************************************************)
\* the buffer is JSON with member k at the top level
HasTopLevel(b, k) ==
    b.syntax = "json" /\ \E i \in DOMAIN b.entries : b.entries[i].key = k

\* the buffer is JSON with a csaf_version key under document
HasCsafVersion(b) ==
    /\ b.syntax = "json"
    /\ \E i \in DOMAIN b.entries :
          /\ b.entries[i].key = "document"
          /\ \E j \in DOMAIN b.entries[i].value.keys :
                b.entries[i].value.keys[j] = "csaf_version"

MatchesAdvisoryProbe(b) ==
    HasCsafVersion(b) \/ HasTopLevel(b, "dataType") \/ HasTopLevel(b, "id")

\* the value of the first top-level member k
FirstValue(b, k) ==
    LET at == {i \in DOMAIN b.entries : b.entries[i].key = k}
    IN  b.entries[CHOOSE i \in at : \A j \in at : i <= j].value

\* the buffer declares an spdxVersion that is none of the supported ones
UnsupportedSpdxVersion(b) ==
    /\ HasTopLevel(b, "spdxVersion")
    /\ FirstValue(b, "spdxVersion") \notin {Str("SPDX-2.2"), Str("SPDX-2.3")}

SpdxVersionMessage(b) ==
    <<"SPDX version ", GetString(FirstValue(b, "spdxVersion")),
      " is unsupported; try 2.2 or 2.3">>

Contains(msg, part) ==
    \E i \in 1..(Len(msg) - Len(part) + 1) : SubSeq(msg, i, i + Len(part) - 1) = part

MatchesSbomProbe(b) ==
    \/ HasTopLevel(b, "spdxVersion")
    \/ HasTopLevel(b, "specVersion")
    \/ /\ (b.syntax = "yaml" \/ (b.syntax = "json" /\ ~b.broken))
       /\ \E i \in DOMAIN b.entries : b.entries[i].key = "coordinates"

IsWeaknessCatalog(b) == b.syntax = "xml" /\ b.root = "Weakness_Catalog"

AdvisoryProbes == {"is_csaf", "is_cve", "is_osv"}

SbomProbes == {"is_spdx", "is_cyclonedx", "is_clearly_defined"}

\* C6: a buffer declaring an unsupported spdxVersion that matches no advisory
\* probe makes from_bytes return an UnsupportedFormat error carrying the
\* version message, never a successful classification.
C6_UnsupportedSpdxVersionIsError ==
    (fpc = "done" /\ UnsupportedSpdxVersion(buf) /\ ~MatchesAdvisoryProbe(buf))
        => /\ ~fresult.ok
           /\ fresult.kind = "UnsupportedFormat"
           /\ Contains(fresult.msg, SpdxVersionMessage(buf))

\* C7: when no advisory probe, no SBOM probe and not the CWE-catalog probe
\* matches, from_bytes returns an UnsupportedFormat error whose message holds
\* the failure message of every family, never Ok.
C7_AllFamiliesFailIsError ==
    (/\ fpc = "done"
     /\ ~MatchesAdvisoryProbe(buf)
     /\ ~MatchesSbomProbe(buf)
     /\ ~IsWeaknessCatalog(buf))
        => /\ ~fresult.ok
           /\ fresult.kind = "UnsupportedFormat"
           /\ Contains(fresult.msg, AdvisoryUndetected)
           /\ Contains(fresult.msg, SbomUndetected)

\* C8: from_bytes returns CweCatalog only for an XML buffer whose root element
\* is Weakness_Catalog.
C8_CweCatalogOnlyForWeaknessCatalog ==
    (fpc = "done" /\ fresult = Ok("CweCatalog")) => IsWeaknessCatalog(buf)

\* C9: a buffer with csaf_version under document is CSAF; otherwise one with a
\* top-level dataType is CVE; otherwise one with a top-level id is OSV.
C9_AdvisoryPriority ==
    fpc = "done" =>
        /\ HasCsafVersion(buf) => fresult = Ok("CSAF")
        /\ (~HasCsafVersion(buf) /\ HasTopLevel(buf, "dataType")) => fresult = Ok("CVE")
        /\ (/\ ~HasCsafVersion(buf)
            /\ ~HasTopLevel(buf, "dataType")
            /\ HasTopLevel(buf, "id")) => fresult = Ok("OSV")

\* a buffer that has an id before its dataType, and no csaf_version, was
\* classified as CVE
C9_Witness ==
    /\ fpc = "done"
    /\ ~HasCsafVersion(buf)
    /\ Len(buf.entries) >= 2
    /\ buf.entries[1].key = "id"
    /\ buf.entries[2].key = "dataType"
    /\ fresult = Ok("CVE")

\* C10: the families are tried in the order advisory, SBOM, CWE catalog; the
\* SBOM probes run only after the advisory family reported no match, the
\* CWE-catalog probe only after the SBOM family reported no match, and a
\* classification by an earlier family is returned without a later probe.
C10_FamiliesInOrder ==
    fpc = "done" =>
        /\ \A i, j \in DOMAIN probed :
              i < j => /\ probed[i] \in SbomProbes => probed[j] \notin AdvisoryProbes
                       /\ probed[i] = "is_cwe_catalog" => FALSE
        /\ (\E i \in DOMAIN probed : probed[i] \in SbomProbes) => ea = AdvisoryUndetected
        /\ (\E i \in DOMAIN probed : probed[i] = "is_cwe_catalog") => es = SbomUndetected
        /\ MatchesAdvisoryProbe(buf) =>
              /\ fresult.ok
              /\ fresult.value \in {"CSAF", "CVE", "OSV"}
              /\ \A i \in DOMAIN probed : probed[i] \in AdvisoryProbes
        /\ (fresult.ok /\ fresult.value \in {"SPDX", "CycloneDX", "ClearlyDefined"}) =>
              \A i \in DOMAIN probed : probed[i] # "is_cwe_catalog"

\* the probes in the order from_bytes reaches them
AllProbes ==
    <<"is_csaf", "is_cve", "is_osv", "is_spdx", "is_cyclonedx",
      "is_clearly_defined", "is_cwe_catalog">>

\* what a probe returns on the buffer
ProbeResult(name, b) ==
    CASE name = "is_csaf" -> is_csaf(b)
      [] name = "is_cve" -> is_cve(b)
      [] name = "is_osv" -> is_osv(b)
      [] name = "is_spdx" -> is_spdx(b)
      [] name = "is_cyclonedx" -> is_cyclonedx(b)
      [] name = "is_clearly_defined" -> is_clearly_defined(b)
      [] OTHER -> is_cwe_catalog(b)

\* the key path a JSON probe reads
ProbeMask(name) ==
    CASE name = "is_csaf" -> <<"document", "csaf_version">>
      [] name = "is_cve" -> <<"dataType">>
      [] name = "is_osv" -> <<"id">>
      [] name = "is_spdx" -> <<"spdxVersion">>
      [] OTHER -> <<"specVersion">>

\* the probe's parser fails on the buffer, or reads it without finding the key
ProbeFails(name, b) ==
    CASE name = "is_clearly_defined" ->
            \/ b.syntax \in {"xml", "binary"}
            \/ b.broken
            \/ \A i \in DOMAIN b.entries : b.entries[i].key # "coordinates"
      [] name = "is_cwe_catalog" -> b.syntax # "xml"
      [] OTHER -> LET m == masked(ProbeMask(name), b) IN ~m.ok \/ m.value = None

\* C11: a probe that was called and whose parser failed or did not find the
\* key returned Ok(false), and the next probe in line was called as well.
C11_ProbeFailureNeverAborts ==
    fpc = "done" =>
        \A i \in DOMAIN AllProbes :
            (AllProbes[i] \in Range(probed) /\ ProbeFails(AllProbes[i], buf))
                => /\ ProbeResult(AllProbes[i], buf).ok
                   /\ ProbeResult(AllProbes[i], buf).value = FALSE
                   /\ i < Len(AllProbes) => AllProbes[i + 1] \in Range(probed)

\* no parser reads the buffer (it is not UTF-8), and all seven probes ran
C11_Witness ==
    /\ fpc = "done"
    /\ buf.syntax = "binary"
    /\ \A i \in DOMAIN AllProbes : ProbeFails(AllProbes[i], buf)
    /\ probed = AllProbes

\* the buffer declares a specVersion that is none of the supported ones
UnsupportedSpecVersion(b) ==
    /\ HasTopLevel(b, "specVersion")
    /\ FirstValue(b, "specVersion") \notin {Str("1.3"), Str("1.4"), Str("1.5")}

SpecVersionMessage(b) ==
    <<"CycloneDX version ", GetString(FirstValue(b, "specVersion")),
      " is unsupported; try 1.3, 1.4, or 1.5">>

\* C12: when the SPDX probe is reached on a buffer declaring an unsupported
\* spdxVersion, or the CycloneDX probe on one declaring an unsupported
\* specVersion, detection ends with an UnsupportedFormat error carrying the
\* version message, and that probe is the last one called.
C12_UnsupportedVersionIsHardError ==
    fpc = "done" =>
        /\ ("is_spdx" \in Range(probed) /\ UnsupportedSpdxVersion(buf))
              => /\ ~fresult.ok
                 /\ fresult.kind = "UnsupportedFormat"
                 /\ Contains(fresult.msg, SpdxVersionMessage(buf))
                 /\ probed[Len(probed)] = "is_spdx"
        /\ (/\ "is_cyclonedx" \in Range(probed)
            /\ ~HasTopLevel(buf, "spdxVersion")
            /\ UnsupportedSpecVersion(buf))
              => /\ ~fresult.ok
                 /\ fresult.kind = "UnsupportedFormat"
                 /\ Contains(fresult.msg, SpecVersionMessage(buf))
                 /\ probed[Len(probed)] = "is_cyclonedx"

LoaderNext ==
    \E p \in Procs :
        \/ \E b \in SourceBytes : Load(p, b)
        \/ Transaction(p)
        \/ IngestVulnerability(p)
        \/ IngestAdvisory(p)
        \/ LinkToVulnerability(p)
        \/ DropDescriptions(p)
        \/ AddDescriptions(p)
        \/ Commit(p)
        \/ StorageError(p)

(***************************************************************************)
(* Claims about CveLoader::load, checked under SpecLoad                    *)
(***************************************************************************)
Identifiers == {ParseCve(b).id : b \in SourceBytes}

Languages == {"en", "es"}

AfterUpsert ==
    {"ingest_advisory", "link_to_vulnerability", "drop_descriptions_for_advisory",
     "add_descriptions", "commit"}

\* the number of rows of (vulnerability, advisory) stored in language lang
StoredIn(g, vulnerability_id, advisory_id, lang) ==
    LET rows == {r \in BagToSet(g.vulnerability_description) :
                    /\ r.vulnerability_id = vulnerability_id
                    /\ r.advisory_id = advisory_id
                    /\ r.lang = lang}
    IN  BagCardinality([r \in rows |-> g.vulnerability_description[r]])

\* the number of description entries the document carries in language lang
SuppliedIn(cve, lang) ==
    Cardinality({i \in DOMAIN Extract(cve).descriptions :
                    Extract(cve).descriptions[i].language = lang})

\* C1: load is atomic.  The committed store is at every moment the store the
\* committed loads produce when run alone one after the other: a load that
\* failed at any step (and returned an error) has left nothing behind, a load
\* repeated after a failure ends where a single successful load ends, and a
\* vulnerability whose loads all failed is not found by a lookup.
C1_LoadIsAtomic ==
    /\ db = serial
    /\ \A id \in Identifiers :
          get_vulnerability(db, id) # {}
            => \E b \in SourceBytes : okCount[b] > 0 /\ ParseCve(b).id = id
    /\ \A p \in Procs : ret[p].status = "Err" => ret[p].id = 0

\* a load failed after the vulnerability upsert and the lookup returns none,
\* while another caller's repeated load of a failed document has succeeded
C1_Witness ==
    \E p, q \in Procs :
        /\ ret[p].status = "Err"
        /\ ret[p].at \in AfterUpsert
        /\ get_vulnerability(db, ret[p].document_id) = {}
        /\ ret[q].status = "Ok"
        /\ ret[q].retry

C4_OneAdvisoryPerDigest ==
    /\ \A a1, a2 \in db.advisory :
          (a1.identifier = a2.identifier /\ a1.sha256 = a2.sha256) => a1 = a2
    /\ \A b \in SourceBytes :
          okCount[b] > 0 =>
            \E a \in db.advisory :
                /\ a.sha256 = Sha256(b)
                /\ a.identifier = ParseCve(b).id
                /\ a.title = AdvisoryInformation(ParseCve(b)).title
                /\ a.modified = AdvisoryInformation(ParseCve(b)).modified
                /\ a.withdrawn = AdvisoryInformation(ParseCve(b)).withdrawn

\* two documents of one identifier are stored as two advisory records, one of
\* them committed while the other caller's load was under way
C4_Witness ==
    /\ Cardinality({a \in db.advisory : a.identifier = "CVE-1"}) >= 2
    /\ \E p \in Procs : pc[p] \in AfterUpsert /\ Cve(p).id = "CVE-1"

\* a load of bytes that were committed before commits
Reingest(p) ==
    /\ pc[p] = "commit"
    /\ pc'[p] = "idle"
    /\ ret'[p].status = "Ok"
    /\ okCount[call[p].bytes] > 0

VulnerabilityRow(cve) ==
    [id |-> cve.id,
     title |-> VulnerabilityInformation(cve).title,
     published |-> VulnerabilityInformation(cve).published,
     modified |-> VulnerabilityInformation(cve).modified,
     withdrawn |-> VulnerabilityInformation(cve).withdrawn,
     cwes |-> VulnerabilityInformation(cve).cwes]

\* C5 as stated: re-ingesting bytes that were ingested before leaves the whole
\* stored state as it was, also after a different document of the identifier.
C5_ReingestIsNoOp ==
    [][\A p \in Procs : Reingest(p) => db' = db]_vars

\* C5 as amended: re-ingesting bytes that were ingested before leaves the
\* advisory records, the link metadata and all descriptions as they were and
\* sets the vulnerability to the values of that document; the call is a no-op
\* on the stored state when the vulnerability still carried those values.
C5_ReingestKeepsAdvisory ==
    [][\A p \in Procs :
         Reingest(p) =>
            /\ db'.advisory = db.advisory
            /\ db'.advisory_vulnerability = db.advisory_vulnerability
            /\ db'.vulnerability_description = db.vulnerability_description
            /\ db'.vulnerability =
                 {v \in db.vulnerability : v.id # Cve(p).id} \cup {VulnerabilityRow(Cve(p))}
            /\ (VulnerabilityRow(Cve(p)) \in db.vulnerability => db' = db)]_vars

\* a document was re-ingested after a different document of its identifier
\* and the vulnerability carries the re-ingested document's title again
C5_Witness ==
    /\ okCount["b1"] = 2
    /\ okCount["b2"] = 1
    /\ \E p \in Procs : ret[p].status = "Ok" /\ ret[p].bytes = "b1"
    /\ \E v \in db.vulnerability : v.id = "CVE-1" /\ v.title = Some("t1")
    /\ \E v \in db.vulnerability : v.id = "CVE-1" /\ v.modified = Some(assume_utc(1))

(***************************************************************************)
(* The CVE corpus walker (modules/importer/src/runner/cve/walker.rs).      *)
(* A path is a sequence of segments, a segment a sequence of characters.   *)
(* The files of the corpus, relative to the base directory "cves":         *)
(***************************************************************************)
MaxRevs == 2

U16_MAX == 65535

Json == <<"j", "s", "o", "n">>

RelPaths ==
    << << <<"2", "0", "2", "1">>, <<"a", ".", "j", "s", "o", "n">> >>,
       << <<"2", "0", "2", "3">>, <<"a", ".", "j", "s", "o", "n">> >>,
       << <<"2", "0", "2", "4">>, <<"a", ".", "j", "s", "o", "n">> >>,
       << <<"2", "0", "2", "3">>, <<"R", ".", "m", "d">> >>,
       << <<"7", "0", "0", "0", "0">>, <<"a", ".", "j", "s", "o", "n">> >>,
       << <<"2", "0", "2", "3">>, <<".", "j", "s", "o", "n">> >> >>

Files == DOMAIN RelPaths

\* the path the handler is given next to the relative one: base joined with it
FullPath(rel) == << <<"c", "v", "e", "s">> >> \o rel

DigitVal ==
    [c \in {"0", "1", "2", "3", "4", "5", "6", "7", "8", "9"} |->
        CASE c = "0" -> 0 [] c = "1" -> 1 [] c = "2" -> 2 [] c = "3" -> 3
          [] c = "4" -> 4 [] c = "5" -> 5 [] c = "6" -> 6 [] c = "7" -> 7
          [] c = "8" -> 8 [] OTHER -> 9]

\* str::parse::<u16>: decimal digits after an optional "+", no overflow
RECURSIVE ParseDigits(_, _)
ParseDigits(s, acc) ==
    IF s = <<>> THEN Some(acc)
    ELSE IF Head(s) \notin DOMAIN DigitVal THEN None
    ELSE LET n == acc * 10 + DigitVal[Head(s)]
         IN  IF n > U16_MAX THEN None ELSE ParseDigits(Tail(s), n)

ParseU16(s) ==
    IF s = <<>> THEN None
    ELSE IF Head(s) = "+"
    THEN (IF Len(s) = 1 THEN None ELSE ParseDigits(Tail(s), 0))
    ELSE ParseDigits(s, 0)

\* Path::extension: what follows the last "." of the file name, None when
\* there is no "." or the only one starts the name
Extension(rel) ==
    LET name == rel[Len(rel)]
        dots == {i \in DOMAIN name : name[i] = "."}
    IN  IF dots = {} THEN None
        ELSE LET k == CHOOSE i \in dots : \A j \in dots : j <= i
             IN  IF k = 1 THEN None ELSE Some(SubSeq(name, k + 1, Len(name)))

\* the handler's filters as set through CveWalker::years and ::start_year
Configs ==
    {[years |-> {}, start_year |-> None],
     [years |-> {2023}, start_year |-> Some(2022)],
     [years |-> {}, start_year |-> Some(2023)],
     [years |-> {2021, 2024}, start_year |-> None]}

\* the outcomes of File::open(path)?.read_to_end(..)
IoOutcomes == {"ok", "io error"}

\* what Callbacks::process returns: it answers a pending cancellation request
\* with Canceled, and otherwise with Ok or a processing error
CallbackOutcomes(c) == IF c THEN {"Canceled"} ELSE {"Ok", "Processing"}

\* CveHandler::process_file
\* process_file with the file read before its extension is looked at
ProcessFileReadFirst(rel, io, cb) ==
    IF io # "ok"
    THEN [result |-> "Io", handed |-> FALSE, opened |-> TRUE]
    ELSE IF Extension(rel) # Some(Json)
    THEN [result |-> "Ok", handed |-> FALSE, opened |-> TRUE]
    ELSE [result |-> CASE cb = "Processing" -> "Critical"
                       [] cb = "Canceled" -> "Canceled"
                       [] OTHER -> "Ok",
          handed |-> TRUE, opened |-> TRUE]

\* result: Ok, or the ProcessingError; handed: Callbacks::process was called;
\* opened: File::open was called
process_file(rel, io, cb) ==
    IF Extension(rel) # Some(Json)
    THEN [result |-> "Ok", handed |-> FALSE, opened |-> FALSE]
    ELSE IF io # "ok"
    THEN [result |-> "Io", handed |-> FALSE, opened |-> TRUE]
    ELSE [result |-> CASE cb = "Processing" -> "Critical"
                       [] cb = "Canceled" -> "Canceled"
                       [] OTHER -> "Ok",
          handed |-> TRUE, opened |-> TRUE]

Skipped == [result |-> Ok(<<>>), handed |-> FALSE, opened |-> FALSE, reported |-> <<>>]

\* CveHandler::process as it would be with one slip in it:
\*   "start year"  the start year itself is excluded (year <= start_year)
\*   "years"       the allow-set is applied even when it is empty
\*   "critical"    a Critical error is handled like any other error
\*   "dropped"     an error that is not fatal is not reported
\*   "fatal"       an error that is not Critical ends the walk as well
\*   "canceled"    Canceled is handled like any other error
HandlerSlip(config, rel, io, cb, slip) ==
    LET year == ParseU16(Head(rel))
    IN  IF year = None THEN Skipped
        ELSE IF (slip = "years" \/ config.years # {}) /\ year[1] \notin config.years
        THEN Skipped
        ELSE IF /\ config.start_year # None
                /\ \/ year[1] < config.start_year[1]
                   \/ slip = "start year" /\ year[1] = config.start_year[1]
        THEN Skipped
        ELSE LET r == process_file(rel, io, cb)
             IN  CASE r.result = "Ok" ->
                        [result |-> Ok(<<>>), handed |-> r.handed,
                         opened |-> r.opened, reported |-> <<>>]
                   [] r.result = "Critical" /\ slip # "critical" ->
                        [result |-> Err("Processing", <<cb>>), handed |-> r.handed,
                         opened |-> r.opened,
                         reported |-> <<>>]
                   [] r.result = "Canceled" /\ slip # "canceled" ->
                        [result |-> Err("Canceled", <<>>), handed |-> r.handed,
                         opened |-> r.opened,
                         reported |-> <<>>]
                   [] r.result = "Io" /\ slip = "fatal" ->
                        [result |-> Err("Processing", <<io>>), handed |-> r.handed,
                         opened |-> r.opened,
                         reported |-> <<>>]
                   [] OTHER ->
                        [result |-> Ok(<<>>), handed |-> r.handed,
                         opened |-> r.opened,
                         reported |-> IF slip = "dropped" THEN <<>>
                                      ELSE <<[path |-> FullPath(rel),
                                              message |-> IF r.result = "Io" THEN io ELSE cb]>>]

ProcessStartYearExclusive(config, rel, io, cb) ==
    HandlerSlip(config, rel, io, cb, "start year")

ProcessEmptyYearsApplied(config, rel, io, cb) ==
    HandlerSlip(config, rel, io, cb, "years")

ProcessCriticalNotFatal(config, rel, io, cb) ==
    HandlerSlip(config, rel, io, cb, "critical")

ProcessErrorDropped(config, rel, io, cb) ==
    HandlerSlip(config, rel, io, cb, "dropped")

ProcessIoErrorFatal(config, rel, io, cb) ==
    HandlerSlip(config, rel, io, cb, "fatal")

ProcessCanceledNotFatal(config, rel, io, cb) ==
    HandlerSlip(config, rel, io, cb, "canceled")

\* CveHandler::process: the result, whether the bytes were handed to
\* Callbacks::process, and the loading_error calls made
process(config, rel, io, cb) ==
    LET year == ParseU16(Head(rel))
    IN  IF year = None THEN Skipped
        ELSE IF config.years # {} /\ year[1] \notin config.years THEN Skipped
        ELSE IF config.start_year # None /\ year[1] < config.start_year[1] THEN Skipped
        ELSE LET r == process_file(rel, io, cb)
             IN  CASE r.result = "Ok" ->
                        [result |-> Ok(<<>>), handed |-> r.handed,
                         opened |-> r.opened, reported |-> <<>>]
                   [] r.result = "Critical" ->
                        [result |-> Err("Processing", <<cb>>), handed |-> r.handed,
                         opened |-> r.opened,
                         reported |-> <<>>]
                   [] r.result = "Canceled" ->
                        [result |-> Err("Canceled", <<>>), handed |-> r.handed,
                         opened |-> r.opened,
                         reported |-> <<>>]
                   [] OTHER ->
                        [result |-> Ok(<<>>), handed |-> r.handed,
                         opened |-> r.opened,
                         reported |-> <<[path |-> FullPath(rel), message |-> io]>>]

(***************************************************************************)
(* CveWalker: the builder and run.  The git walker behind it (GitWalker:   *)
(* synchronising the working copy, resolving the continuation, enumerating *)
(* the files, calling the handler per file, returning the continuation) is *)
(* not part of the sources at hand; it is modelled from the specification  *)
(* of the Corpus Walker with Continuation (spec section 4.5).              *)
(***************************************************************************)
\* Continuation: default (None) or the revision it was captured at; a
\* revision beyond the head is one the current history does not hold
Continuations == {None} \cup {Some(r) : r \in 1..(MaxRevs + 1)}

\* CveWalker::new
NewWalker == [continuation |-> None, years |-> {}, start_year |-> None]

\* CveWalker::continuation with the token dropped
ContinuationDropped(walker, c) == walker

continuation(walker, c) == [walker EXCEPT !.continuation = c]

years(walker, y) == [walker EXCEPT !.years = y]

start_year(walker, y) == [walker EXCEPT !.start_year = y]

\* an unresolvable continuation taken for "nothing new since the head"
ResolveLenient(c, h) ==
    IF c = None THEN Ok(0)
    ELSE IF c[1] \in 1..h THEN Ok(c[1])
    ELSE Ok(h)

\* the revision a continuation stands for: 0 (before the first revision) for
\* the default one, an error when the history does not hold its revision
Resolve(c, h) ==
    IF c = None THEN Ok(0)
    ELSE IF c[1] \in 1..h THEN Ok(c[1])
    ELSE Err("Continuation", <<"revision not found">>)

\* the files changed after revision base
ChangedSince(base, ch) == {f \in Files : ch[f] > base}

\* a set of files in the order of the revisions that changed them last
RECURSIVE InHistoryOrder(_, _)
InHistoryOrder(S, ch) ==
    IF S = {} THEN <<>>
    ELSE LET f == CHOOSE x \in S :
                    \A y \in S : ch[x] < ch[y] \/ (ch[x] = ch[y] /\ x <= y)
         IN  <<f>> \o InHistoryOrder(S \ {f}, ch)

NoWalkResult == [ok |-> FALSE, value |-> None, kind |-> "pending", msg |-> <<>>]

NoFile ==
    [file |-> 0, io |-> "none", cb |-> "none", opened |-> FALSE, result |-> NoWalkResult]

\* what the corpus says about its files: the year folder and the extension
FileYear == <<Some(2021), Some(2023), Some(2024), Some(2023), None, Some(2023)>>

FileIsJson == <<TRUE, TRUE, TRUE, FALSE, TRUE, FALSE>>

\* the file passes the year filters and has the json extension
Eligible(config, f) ==
    /\ FileYear[f] # None
    /\ config.years = {} \/ FileYear[f][1] \in config.years
    /\ config.start_year = None \/ FileYear[f][1] >= config.start_year[1]
    /\ FileIsJson[f]

WalkerIdle ==
    /\ head = 1
    /\ changed = [f \in Files |-> 1]
    /\ wpc = "idle"
    /\ token = None
    /\ cfg = [years |-> {}, start_year |-> None]
    /\ queue = <<>>
    /\ visited = <<>>
    /\ delivered = <<>>
    /\ errors = <<>>
    /\ wresult = NoWalkResult
    /\ cancel = FALSE
    /\ last = NoFile
    /\ ioFailed = <<>>
    /\ cancelAt = 0
    /\ issued = {}

\* a new revision of the corpus changes a file
CorpusCommit(f) ==
    /\ wpc \in {"idle", "done"}
    /\ head < MaxRevs
    /\ head' = head + 1
    /\ changed' = [changed EXCEPT ![f] = head + 1]
    /\ UNCHANGED <<wpc, token, cfg, queue, visited, delivered, errors, wresult,
                   cancel, last, ioFailed, cancelAt, issued>>
    /\ UNCHANGED <<loaderVars, formatVars, ingestVars, aiVars, digestVars, toolVars>>

\* CveWalker::new(..).continuation(c).years(..).start_year(..).run(), up to
\* the first file: the continuation is resolved and the files enumerated
StartWalk(c, config) ==
    /\ wpc \in {"idle", "done"}
    /\ LET walker == start_year(years(continuation(NewWalker, c), config.years),
                                config.start_year)
       IN  /\ token' = c
           /\ cfg' = [years |-> walker.years, start_year |-> walker.start_year]
           /\ LET base == Resolve(walker.continuation, head)
              IN  IF base.ok
                  THEN /\ wpc' = "dispatching"
                       /\ queue' = InHistoryOrder(ChangedSince(base.value, changed), changed)
                       /\ wresult' = NoWalkResult
                  ELSE /\ wpc' = "done"
                       /\ queue' = <<>>
                       /\ wresult' = base
    /\ visited' = <<>>
    /\ delivered' = <<>>
    /\ errors' = <<>>
    /\ cancel' = FALSE
    /\ last' = NoFile
    /\ ioFailed' = <<>>
    /\ cancelAt' = 0
    /\ UNCHANGED <<head, changed, issued>>
    /\ UNCHANGED <<loaderVars, formatVars, ingestVars, aiVars, digestVars, toolVars>>

\* a cancellation of the running walk is requested
RequestCancel ==
    /\ wpc = "dispatching"
    /\ ~cancel
    /\ cancel' = TRUE
    /\ cancelAt' = Len(visited)
    /\ UNCHANGED <<head, changed, wpc, token, cfg, queue, visited, delivered, errors,
                   wresult, last, ioFailed, issued>>
    /\ UNCHANGED <<loaderVars, formatVars, ingestVars, aiVars, digestVars, toolVars>>

\* the walk hands the next file to CveHandler::process; an error it returns
\* ends the walk and is what run returns
Dispatch ==
    /\ wpc = "dispatching"
    /\ queue # <<>>
    /\ \E io \in IoOutcomes, cb \in CallbackOutcomes(cancel) :
          LET f == Head(queue)
              r == process(cfg, RelPaths[f], io, cb)
          IN  /\ visited' = Append(visited, f)
              /\ delivered' = IF r.handed THEN Append(delivered, f) ELSE delivered
              /\ errors' = errors \o r.reported
              /\ ioFailed' = IF Eligible(cfg, f) /\ io # "ok"
                             THEN Append(ioFailed, f) ELSE ioFailed
              /\ last' = [file |-> f,
                          io |-> IF Eligible(cfg, f) THEN io ELSE "none",
                          cb |-> IF Eligible(cfg, f) /\ io = "ok" THEN cb ELSE "none",
                          opened |-> r.opened,
                          result |-> r.result]
              /\ queue' = Tail(queue)
              /\ IF r.result.ok
                 THEN UNCHANGED <<wpc, wresult>>
                 ELSE wpc' = "done" /\ wresult' = r.result
    /\ UNCHANGED <<head, changed, token, cfg, cancel, cancelAt, issued>>
    /\ UNCHANGED <<loaderVars, formatVars, ingestVars, aiVars, digestVars, toolVars>>

\* every file was dispatched: run returns the continuation of the head
Finalize ==
    /\ wpc = "dispatching"
    /\ queue = <<>>
    /\ wpc' = "done"
    /\ wresult' = Ok(Some(head))
    /\ issued' = issued \cup {Some(head)}
    /\ UNCHANGED <<head, changed, token, cfg, queue, visited, delivered, errors,
                   cancel, last, ioFailed, cancelAt>>
    /\ UNCHANGED <<loaderVars, formatVars, ingestVars, aiVars, digestVars, toolVars>>

WalkerNext ==
    \/ \E f \in Files : CorpusCommit(f)
    \/ \E c \in Continuations, config \in Configs : StartWalk(c, config)
    \/ RequestCancel
    \/ Dispatch
    \/ Finalize

(***************************************************************************)
(* Claims about the corpus walker, checked under SpecWalk                  *)
(***************************************************************************)
\* the example of the specification: years {2023}, start year 2022
ExampleConfig == [years |-> {2023}, start_year |-> Some(2022)]

\* C13 as stated: of the files dispatched, exactly those that pass the year
\* filters and have the json extension were handed to the callback, every
\* other one was skipped with Ok; under years {2023} and start year 2022 the
\* files under 2021 and 2024 are not handed on and the one under 2023 is.
C13_HandedIffEligible ==
    /\ \A f \in Range(visited) : f \in Range(delivered) <=> Eligible(cfg, f)
    /\ (last.file # 0 /\ ~Eligible(cfg, last.file)) => last.result = Ok(<<>>)
    /\ cfg = ExampleConfig =>
          /\ 1 \notin Range(delivered)
          /\ 3 \notin Range(delivered)
          /\ 2 \in Range(visited) => 2 \in Range(delivered)

\* C13 amended: of the files dispatched, exactly those that pass the year
\* filters, have the json extension and were read without an I/O error were
\* handed to the callback; a file failing a filter was skipped with Ok and
\* without a loading_error call; under years {2023} and start year 2022 the
\* files under 2021 and 2024 are not handed on and the one under 2023, when
\* read, is.
C13_HandedIffEligibleAndRead ==
    /\ \A f \in Range(visited) :
          f \in Range(delivered) <=> (Eligible(cfg, f) /\ f \notin Range(ioFailed))
    /\ (last.file # 0 /\ ~Eligible(cfg, last.file)) =>
          /\ last.result = Ok(<<>>)
          /\ \A i \in DOMAIN errors : errors[i].path # FullPath(RelPaths[last.file])
    /\ cfg = ExampleConfig =>
          /\ 1 \notin Range(delivered)
          /\ 3 \notin Range(delivered)
          /\ (2 \in Range(visited) /\ 2 \notin Range(ioFailed)) => 2 \in Range(delivered)

\* under the example filters the files under 2021, 2023 and 2024 were all
\* dispatched and only the one under 2023 reached the callback
C13_Witness ==
    /\ cfg = ExampleConfig
    /\ {1, 2, 3} \subseteq Range(visited)
    /\ delivered = <<2>>

\* C14: when the callback answers a file with a processing error or with
\* Canceled, process returns HandlerError::Processing resp. Canceled, nothing
\* is reported through loading_error for that file, the walk is over with
\* that error as its result (Canceled and Processing being different
\* results), and the files after it stay undispatched.
C14_CriticalAndCanceledAbort ==
    \A k \in {"Processing", "Canceled"} :
        last.cb = k =>
            /\ last.result = Err(k, last.result.msg)
            /\ \A i \in DOMAIN errors : errors[i].path # FullPath(RelPaths[last.file])
            /\ wpc = "done"
            /\ wresult = Err(k, wresult.msg)
            /\ visited[Len(visited)] = last.file
            /\ delivered[Len(delivered)] = last.file
            /\ \A f \in Range(queue) : f \notin Range(visited)

\* the callback answered the second file it was handed with Canceled while
\* files were still waiting
C14_Witness ==
    /\ last.cb = "Canceled"
    /\ Len(delivered) = 2
    /\ queue # <<>>
    /\ wresult = Err("Canceled", <<>>)

\* C15: the loading_error calls of a walk are, in order, exactly one per file
\* whose read failed, each with that file's path and the error's message;
\* process returned Ok on such a file and the walk went on: it is still
\* dispatching, or it ended with a continuation and no file left.
C15_OtherErrorsReportedOnce ==
    /\ Len(errors) = Len(ioFailed)
    /\ \A i \in DOMAIN errors :
          /\ errors[i].path = FullPath(RelPaths[ioFailed[i]])
          /\ errors[i].message = "io error"
    /\ last.io = "io error" =>
          /\ last.result = Ok(<<>>)
          /\ wpc = "dispatching" \/ (wpc = "done" /\ wresult.ok /\ queue = <<>>)

\* a read failed, was reported, and a later file was handed to the callback
C15_Witness ==
    /\ Len(errors) = 1
    /\ Len(visited) >= 2
    /\ visited[1] = ioFailed[1]
    /\ visited[Len(visited)] \in Range(delivered)

C17_CancelObservedAtNextFile ==
    (cancel /\ Len(visited) > cancelAt) =>
        /\ Len(visited) = cancelAt + 1
        /\ wpc = "done"
        /\ wresult = Err("Canceled", <<>>)

\* the revision a continuation stands for
TokenRevision(c) == IF c = None THEN 0 ELSE c[1]

\* C18: a walk run with the continuation of revision R dispatches no file
\* whose last change is at or before R.
C18_NoRedispatchAtOrBeforeToken ==
    (wpc # "idle" /\ token # None) =>
        \A f \in Range(visited) : changed[f] > TokenRevision(token)

\* a walk returned the continuation of revision 1, the corpus moved on, and a
\* second walk run with that continuation dispatched the file changed since
C18_Witness ==
    /\ token = Some(1)
    /\ token \in issued
    /\ head = 2
    /\ wpc = "done"
    /\ wresult = Ok(Some(2))
    /\ Len(visited) = 1

\* C19: a walk that ended with a continuation for head H, run with a
\* continuation of revision R (0 for the default one), dispatched every file
\* changed after R up to H, handed every such file that is eligible and was
\* read to the callback, and did so in the order of the revisions.
C19_AtLeastOnce ==
    (wpc = "done" /\ wresult.ok) =>
        LET H == wresult.value[1]
            due == {f \in Files : changed[f] > TokenRevision(token) /\ changed[f] <= H}
        IN  /\ due \subseteq Range(visited)
            /\ \A f \in due :
                  (Eligible(cfg, f) /\ f \notin Range(ioFailed)) => f \in Range(delivered)
            /\ \A i, j \in DOMAIN visited :
                  (i < j /\ visited[i] \in due /\ visited[j] \in due)
                      => changed[visited[i]] <= changed[visited[j]]

\* a walk with the default continuation over a corpus of two revisions handed
\* on a file of the first revision and then the file of the second
C19_Witness ==
    /\ wpc = "done"
    /\ wresult = Ok(Some(2))
    /\ token = None
    /\ Len(delivered) >= 2
    /\ changed[delivered[1]] = 1
    /\ changed[delivered[Len(delivered)]] = 2

\* C20: a walk given a continuation whose revision the history does not hold
\* does not return a continuation: it ends with an error.
C20_UnresolvableTokenFails ==
    (wpc = "done" /\ token # None /\ TokenRevision(token) > head) => ~wresult.ok

\* a walk was given the continuation of a revision beyond the head and ended
\* with the resolution error, no file dispatched
C20_Witness ==
    /\ wpc = "done"
    /\ token # None
    /\ TokenRevision(token) > head
    /\ wresult = Err("Continuation", <<"revision not found">>)
    /\ visited = <<>>

\* C21: run returns a continuation only from the end of the enumeration: a
\* walk that returned one left no file undispatched and its callback answered
\* the last file neither with a processing error nor with Canceled; a walk
\* ended by such an answer returned the error and no continuation, and the
\* continuations handed out so far are those of walks that reached the end.
C21_TokenOnlyAtEnd ==
    wpc = "done" =>
        /\ wresult.ok =>
              /\ queue = <<>>
              /\ last.cb \notin {"Processing", "Canceled"}
              /\ wresult.value \in issued
        /\ last.cb \in {"Processing", "Canceled"} =>
              /\ ~wresult.ok
              /\ wresult.value = None
        /\ \A c \in issued : c # None /\ TokenRevision(c) <= head

\* a walk run with the continuation of revision 1 was canceled on the file of
\* revision 2: it returned Canceled, and the only continuation handed out is
\* still the one of revision 1
C21_Witness ==
    /\ wpc = "done"
    /\ token = Some(1)
    /\ head = 2
    /\ last.cb = "Canceled"
    /\ wresult = Err("Canceled", <<>>)
    /\ issued = {Some(1)}

\* C27: a file whose extension is not json is not opened, not handed to the
\* callback and not reported through loading_error; process returns Ok on it.
C27_OtherExtensionUntouched ==
    (last.file # 0 /\ ~FileIsJson[last.file]) =>
        /\ ~last.opened
        /\ last.result = Ok(<<>>)
        /\ last.file \notin Range(delivered)
        /\ \A i \in DOMAIN errors : errors[i].path # FullPath(RelPaths[last.file])

\* the file 2023/R.md passed the year filters and was skipped
C27_Witness ==
    /\ last.file = 4
    /\ cfg = ExampleConfig
    /\ ~last.opened
    /\ last.result = Ok(<<>>)

(***************************************************************************)
(* Further claims about CveLoader::load, checked under SpecLoad            *)
(***************************************************************************)
OpNames(ops) == {ops[i].op : i \in DOMAIN ops}

GraphOps ==
    {"ingest_vulnerability", "link_to_vulnerability", "drop_descriptions_for_advisory",
     "add_descriptions"}

\* the load of p returns in this step
Returns(p) == pc[p] # "idle" /\ pc'[p] = "idle"

\* one transaction per load, and only operations of the load's own document
\* on it: no operation is recorded before the transaction is opened or after
\* the load has returned, every recorded operation names the identifier of the
\* document the load was called with, and when the load reaches its commit
\* the one transaction holds every graph operation of the document once
C22_OneTransaction ==
    \A p \in Procs :
        /\ pc[p] \in {"idle", "transaction"} => tx[p] = <<>>
        /\ \A i \in DOMAIN tx[p] :
              tx[p][i].vulnerability_id = ParseCve(call[p].bytes).id
        /\ pc[p] = "commit" =>
              /\ GraphOps \subseteq OpNames(tx[p])
              /\ \A i, j \in DOMAIN tx[p] : tx[p][i].op = tx[p][j].op => i = j

\* one commit on success, none on failure: a load that returns Ok applied its
\* transaction to the store in that very step, a load that returns an error
\* left the store as it was, and the store changes in no other step
C22_OneCommit ==
    /\ \A p \in Procs :
          Returns(p) =>
              IF ret'[p].status = "Ok"
              THEN pc[p] = "commit" /\ db' = ApplyAll(tx[p], db)
              ELSE ret'[p].status = "Err" /\ db' = db
    /\ db' # db => \E p \in Procs : Returns(p) /\ ret'[p].status = "Ok"

\* C22: each call of CveLoader::load opens exactly one transaction, issues
\* every graph operation of its document against that transaction, commits it
\* exactly once on success and never on failure, and no operation of another
\* document is issued on it.
C22_OneDocumentOneTransactionOneCommit ==
    [](C22_OneTransaction) /\ [][C22_OneCommit]_vars

\* a load stands before its commit with all its operations in its transaction
\* while a load of another document has committed
C22_Witness ==
    \E p, q \in Procs :
        /\ pc[p] = "commit"
        /\ Len(tx[p]) = 5
        /\ ret[q].status = "Ok"
        /\ ret[q].document_id # ParseCve(call[p].bytes).id
        /\ get_vulnerability(db, ret[q].document_id) # {}
        /\ get_vulnerability(db, ParseCve(call[p].bytes).id) = {}

\* the advisory ids the open transaction of p has created
InsertedBy(p) ==
    {tx[p][i].advisory_id : i \in {j \in DOMAIN tx[p] : tx[p][j].op = "insert_advisory"}}

\* no load works with an advisory another load has created and not committed
C23_NoDirtyRead ==
    \A p, q \in Procs :
        p # q => /\ call[p].advisory \notin InsertedBy(q)
                 /\ \A i \in DOMAIN tx[p] : tx[p][i].advisory_id \notin InsertedBy(q)

\* a commit has the effect of the whole load run alone on the store as
\* committed at that moment, and the vulnerability row is the committing
\* document's (last committed wins)
C23_CommitIsSerial ==
    \A p \in Procs :
        (Returns(p) /\ ret'[p].status = "Ok") =>
            LET cve == ParseCve(call[p].bytes)
            IN  /\ db' = LoadOnce(cve, Sha256(call[p].bytes), call[p].labels,
                                  call[p].advisory, db)
                /\ get_vulnerability(db', cve.id) = {VulnerabilityRow(cve)}

\* C23: two loads running concurrently, each on its own transaction, for
\* documents with the same vulnerability identifier serialize: the store is
\* what the loads produce one after the other in commit order (last committed
\* wins on title, timestamps and weaknesses), and neither load observes the
\* other's uncommitted upsert.
C23_ConcurrentLoadsSerialize ==
    [](C23_NoDirtyRead) /\ [][C23_CommitIsSerial]_vars

\* two loads of different documents of one identifier overlapped: the one that
\* created its advisory first is still uncommitted, the other has committed
C23_Witness ==
    \E p, q \in Procs :
        /\ p # q
        /\ pc[p] = "commit"
        /\ ret[q].status = "Ok"
        /\ ret[q].document_id = ParseCve(call[p].bytes).id
        /\ ret[q].bytes # call[p].bytes
        /\ \E u \in InsertedBy(p) : u < ret[q].id
        /\ \E a \in db.advisory : a.id = ret[q].id

\* C24: starting from a store that holds neither the vulnerability nor an
\* advisory with the document's digest, a successful load of a published
\* document leaves one vulnerability with the document's identifier, one
\* advisory found by the SHA-256 of the source bytes and linked to the
\* vulnerability, and one stored description per description entry of the
\* document (one English description for the single-entry document).
C24_FirstLoadOfPublished ==
    [][\A p \in Procs :
         LET b == call[p].bytes
             cve == ParseCve(b)
         IN  (/\ Returns(p)
              /\ ret'[p].status = "Ok"
              /\ cve.state = "PUBLISHED"
              /\ get_vulnerability(db, cve.id) = {}
              /\ get_advisory_by_digest(db, Sha256(b)) = {})
             =>
             /\ Cardinality(get_vulnerability(db', cve.id)) = 1
             /\ Cardinality(get_advisory_by_digest(db', Sha256(b))) = 1
             /\ \A a \in get_advisory_by_digest(db', Sha256(b)) :
                   /\ a.id = ret'[p].id
                   /\ a.identifier = cve.id
                   /\ \E l \in db'.advisory_vulnerability :
                         l.advisory_id = a.id /\ l.vulnerability_id = cve.id
                   /\ DescriptionsOf(db', cve.id, a.id)
                        = DescriptionRows(cve.id, a.id, SuppliedEntries(cve))
                   /\ BagCardinality(DescriptionsOf(db', cve.id, a.id))
                        = Len(cve.descriptions)
                   /\ b = "b1" =>
                         DescriptionsOf(db', cve.id, a.id)
                           = SetToBag({[vulnerability_id |-> "CVE-1", advisory_id |-> a.id,
                                        lang |-> "en", description |-> "x1"]})
    ]_vars

\* the single-entry published document was loaded into the empty store
C24_Witness ==
    /\ \E p \in Procs : ret[p].status = "Ok" /\ ret[p].bytes = "b1"
    /\ okCount = [b \in SourceBytes |-> IF b = "b1" THEN 1 ELSE 0]
    /\ Cardinality(db.vulnerability) = 1
    /\ Cardinality(db.advisory) = 1
    /\ Cardinality(db.advisory_vulnerability) = 1
    /\ BagCardinality(db.vulnerability_description) = 1

\* the weakness identifiers of all problem-type entries of a record
WeaknessIds(cve) ==
    {cve.problem_types[i][j][1] :
        <<i, j>> \in {ij \in (DOMAIN cve.problem_types) \X (1..MaxEntries) :
                         /\ ij[2] \in DOMAIN cve.problem_types[ij[1]]
                         /\ cve.problem_types[ij[1]][ij[2]] # None}}

\* what a rejected record has to produce
RejectedShape(title, discovery, withdrawn, cwes, cve) ==
    /\ title = None
    /\ discovery = None
    /\ cwes = None
    /\ cve.date_rejected # None => withdrawn = Some(assume_utc(cve.date_rejected[1]))
    /\ cve.date_rejected = None => withdrawn = None

\* what a published record has to produce
PublishedShape(title, discovery, withdrawn, cwes, cve) ==
    /\ title = cve.title
    /\ cve.date_assigned # None => discovery = Some(assume_utc(cve.date_assigned[1]))
    /\ cve.date_assigned = None => discovery = None
    /\ withdrawn = None
    /\ IF WeaknessIds(cve) = {} THEN cwes = None
       ELSE cwes # None /\ Range(cwes[1]) = WeaknessIds(cve)

Shape(title, discovery, withdrawn, cwes, cve) ==
    IF cve.state = "REJECTED"
    THEN RejectedShape(title, discovery, withdrawn, cwes, cve)
    ELSE PublishedShape(title, discovery, withdrawn, cwes, cve)

\* C25: load branches on the record state.  A rejected record produces a
\* vulnerability and advisory with no title, no assignment (discovery) date
\* and no weaknesses, withdrawn set to the rejection date, and the rejection
\* reasons as the description set; a published record produces withdrawn
\* unset, the title, the assignment date, its descriptions, and the weakness
\* identifiers flattened from all problem-type entries.
C25_BranchOnState ==
    \A p \in Procs :
        \A i \in DOMAIN tx[p] :
            LET o == tx[p][i]
                cve == ParseCve(call[p].bytes)
            IN  /\ o.op = "ingest_vulnerability" =>
                      /\ Shape(o.arg.title, None, o.arg.withdrawn, o.arg.cwes,
                               [cve EXCEPT !.date_assigned = None])
                      /\ call[p].bytes = "b2" => o.arg.cwes = Some(<<"CWE-20", "CWE-79">>)
                /\ o.op = "insert_advisory" =>
                      Shape(o.arg.information.title, None, o.arg.information.withdrawn,
                            None, [cve EXCEPT !.date_assigned = None,
                                              !.problem_types = <<>>])
                /\ o.op = "link_to_vulnerability" =>
                      Shape(o.arg.title, o.arg.discovery_date, None, o.arg.cwes,
                            [cve EXCEPT !.date_rejected = None])
                /\ o.op = "add_descriptions" =>
                      o.arg = SuppliedEntries(cve)

\* a rejected and a published record with two problem-type entries each stand
\* before their commit
C25_Witness ==
    \E p, q \in Procs :
        /\ pc[p] = "commit" /\ call[p].bytes = "b3"
        /\ pc[q] = "commit" /\ call[q].bytes = "b2"
        /\ \E i \in DOMAIN tx[p] : tx[p][i].op = "insert_advisory"
        /\ \E i \in DOMAIN tx[q] : tx[q][i].op = "insert_advisory"

OpRank(n) ==
    CASE n = "ingest_vulnerability" -> 1
      [] n = "insert_advisory" -> 2
      [] n = "link_to_vulnerability" -> 3
      [] n = "drop_descriptions_for_advisory" -> 4
      [] n = "add_descriptions" -> 5

\* the rank of the operation a load issues next
StepRank(s) ==
    CASE s \in {"idle", "transaction", "ingest_vulnerability"} -> 1
      [] s = "ingest_advisory" -> 2
      [] s = "link_to_vulnerability" -> 3
      [] s = "drop_descriptions_for_advisory" -> 4
      [] s = "add_descriptions" -> 5
      [] s = "commit" -> 6

\* the advisory id ingest_advisory returned to the load of p: the id of the
\* row the transaction created, or of the committed row with the digest
ReturnedByUpsert(p, uuid) ==
    IF InsertedBy(p) # {} THEN InsertedBy(p) = {uuid}
    ELSE \E a \in db.advisory : a.id = uuid /\ a.sha256 = Sha256(call[p].bytes)

\* C29: within one load the graph operations are issued in the order
\* vulnerability upsert, advisory upsert, link, drop of the descriptions of
\* this advisory, insert of the collected descriptions, commit; the drop
\* precedes the insert and both name the advisory id the advisory upsert of
\* the same call returned.
C29_OperationOrder ==
    \A p \in Procs :
        /\ \A i, j \in DOMAIN tx[p] :
              i < j => OpRank(tx[p][i].op) < OpRank(tx[p][j].op)
        /\ OpNames(tx[p]) \ {"insert_advisory"}
             = {n \in GraphOps : OpRank(n) < StepRank(pc[p])}
        /\ "insert_advisory" \in OpNames(tx[p]) => StepRank(pc[p]) > 2
        /\ \A i \in DOMAIN tx[p] :
              tx[p][i].op \in {"link_to_vulnerability", "drop_descriptions_for_advisory",
                               "add_descriptions"}
                => /\ tx[p][i].advisory_id # 0
                   /\ ReturnedByUpsert(p, tx[p][i].advisory_id)

\* a repeated load stands before its commit: its upsert returned the advisory
\* stored earlier, whose descriptions the drop removes before the insert
C29_Witness ==
    \E p \in Procs :
        /\ pc[p] = "commit"
        /\ Len(tx[p]) = 4
        /\ tx[p][3].op = "drop_descriptions_for_advisory"
        /\ tx[p][4].op = "add_descriptions"
        /\ tx[p][3].advisory_id = tx[p][4].advisory_id
        /\ DescriptionsOf(db, tx[p][3].vulnerability_id, tx[p][3].advisory_id) # EmptyBag

(***************************************************************************)
(* Format::load.  The stream is buffered, the buffer is deserialized for   *)
(* the selected dialect and handed to the dialect's loader.  Of the        *)
(* loaders only CveLoader is part of the sources at hand; the others are   *)
(* modelled by what the specification says of every loader: parse, then    *)
(* one transaction, committed or rolled back as a whole.                   *)
(***************************************************************************)
MaxIngests == 2

Formats ==
    {"OSV", "CSAF", "CVE", "SPDX", "CycloneDX", "ClearlyDefined", "CweCatalog",
     "Advisory", "SBOM", "Unknown"}

\* the byte buffers: two CVE records, one document of every other dialect, a
\* JSON object with a dataType that is no CVE record, a JSON object with a
\* specVersion that is no BOM, and bytes that are no text at all
IngestBytes ==
    {"b1", "b3", "cvex", "csaf1", "osv1", "spdx1", "cdx1", "cdx0", "cur1", "cwe1", "junk"}

Syntax(b) ==
    CASE b \in {"b1", "b3", "cvex", "csaf1", "osv1", "spdx1", "cdx1", "cdx0"} -> "json"
      [] b = "cur1" -> "yaml"
      [] b = "cwe1" -> "xml"
      [] OTHER -> "binary"

\* the type the buffer deserializes to in full ("" when there is none)
Dialect(b) ==
    CASE b \in {"b1", "b3"} -> "Cve"
      [] b = "csaf1" -> "Csaf"
      [] b = "osv1" -> "Vulnerability"
      [] b = "spdx1" -> "SPDX"
      [] b = "cdx1" -> "Bom"
      [] b = "cur1" -> "Curation"
      [] b = "cwe1" -> "Weakness_Catalog"
      [] OTHER -> ""

\* a stream delivers its bytes, or fails on the way
Streams ==
    {[ok |-> TRUE, bytes |-> b] : b \in IngestBytes} \cup {[ok |-> FALSE, bytes |-> ""]}

\* s.read_to_end(&mut buffer).await
read_to_end(stream) ==
    IF stream.ok THEN Ok(stream.bytes) ELSE Err("Io", <<"stream error">>)

\* A plausible slip: every field of the OSV type has a default, and any JSON
\* text deserializes to a Vulnerability.
FromSliceOsvLenient(T, b) ==
    IF Syntax(b) # "json" THEN Err("Json", <<"expected value">>)
    ELSE IF T \in {"Value", "Vulnerability"} \/ Dialect(b) = T THEN Ok(b)
    ELSE Err("Json", <<"missing field">>)

\* serde_json::from_slice::<T>(&buffer)
from_slice(T, b) ==
    IF Syntax(b) # "json" THEN Err("Json", <<"expected value">>)
    ELSE IF T = "Value" \/ Dialect(b) = T THEN Ok(b)
    ELSE Err("Json", <<"missing field">>)

\* Bom::parse_json_value(v)
parse_json_value(b) ==
    IF Dialect(b) = "Bom" THEN Ok(b) ELSE Err("BomError", <<"invalid BOM">>)

\* serde_yml::from_slice::<Curation>(&buffer): JSON text is YAML text
yml_from_slice(b) ==
    IF Syntax(b) \in {"json", "yaml"} /\ Dialect(b) = "Curation" THEN Ok(b)
    ELSE Err("Yaml", <<"invalid curation">>)

\* A plausible slip: the last arm of the match is a catch-all that hands the
\* buffer to the CWE catalog loader.
LoaderForCatchAll(f) ==
    CASE f = "CSAF" -> Some("CsafLoader")
      [] f = "OSV" -> Some("OsvLoader")
      [] f = "CVE" -> Some("CveLoader")
      [] f = "SPDX" -> Some("SpdxLoader")
      [] f = "CycloneDX" -> Some("CyclonedxLoader")
      [] f = "ClearlyDefined" -> Some("ClearlyDefinedLoader")
      [] OTHER -> Some("CweCatalogLoader")

\* the arms of `match self`: the loader of a concrete format, none for the
\* variants that must be resolved first
LoaderFor(f) ==
    CASE f = "CSAF" -> Some("CsafLoader")
      [] f = "OSV" -> Some("OsvLoader")
      [] f = "CVE" -> Some("CveLoader")
      [] f = "SPDX" -> Some("SpdxLoader")
      [] f = "CycloneDX" -> Some("CyclonedxLoader")
      [] f = "ClearlyDefined" -> Some("ClearlyDefinedLoader")
      [] f = "CweCatalog" -> Some("CweCatalogLoader")
      [] OTHER -> None

\* what each arm makes of the buffer before it calls its loader
Deserialize(f, b) ==
    CASE f = "CSAF" -> from_slice("Csaf", b)
      [] f = "OSV" -> from_slice("Vulnerability", b)
      [] f = "CVE" -> from_slice("Cve", b)
      [] f = "SPDX" -> from_slice("Value", b)
      [] f = "CycloneDX" ->
           IF ~from_slice("Value", b).ok THEN from_slice("Value", b)
           ELSE IF parse_json_value(b).ok THEN Ok(b)
           ELSE Err("UnsupportedFormat", <<"Failed to parse: ">> \o parse_json_value(b).msg)
      [] f = "ClearlyDefined" -> yml_from_slice(b)
      [] OTHER -> Ok(b)

\* format!("Must resolve {f:?} to an actual format")
MustResolve(f) == <<"Must resolve ", f, " to an actual format">>

\* Format::load up to the call of the loader: the error it returns at once, or
\* the loader it calls and the value it hands over
load(f, stream) ==
    IF ~read_to_end(stream).ok
    THEN [loader |-> None, result |-> read_to_end(stream), arg |-> ""]
    ELSE IF LoaderFor(f) = None
    THEN [loader |-> None, result |-> Err("UnsupportedFormat", MustResolve(f)), arg |-> ""]
    ELSE IF ~Deserialize(f, read_to_end(stream).value).ok
    THEN [loader |-> None, result |-> Deserialize(f, read_to_end(stream).value), arg |-> ""]
    ELSE [loader |-> LoaderFor(f), result |-> NoFormatResult,
          arg |-> Deserialize(f, read_to_end(stream).value).value]

NoIngest == [format |-> "", stream |-> [ok |-> FALSE, bytes |-> ""], entry |-> ""]

IngestIdle ==
    /\ icall = NoIngest
    /\ ipc = "idle"
    /\ iresult = NoFormatResult
    /\ invoked = <<>>
    /\ itx = 0
    /\ ingested = {}
    /\ ipre = [db |-> EmptyGraph, ingested |-> {}, loads |-> 0]
    /\ icount = 0

\* Format::load(graph, labels, issuer, digests, stream), up to the loader call
FormatLoad(f, stream) ==
    /\ ipc = "idle"
    /\ icount < MaxIngests
    /\ icount' = icount + 1
    /\ icall' = [format |-> f, stream |-> stream, entry |-> "Format::load"]
    /\ ipre' = [db |-> db, ingested |-> ingested, loads |-> loads]
    /\ itx' = 0
    /\ invoked' = IF load(f, stream).loader = None THEN <<>>
                  ELSE <<load(f, stream).loader[1]>>
    /\ iresult' = load(f, stream).result
    /\ ipc' = IF load(f, stream).loader = None THEN "idle" ELSE "loader"
    /\ IF load(f, stream).loader = Some("CveLoader")
       THEN LoadCall("c1", load(f, stream).arg)
       ELSE UNCHANGED loaderVars
    /\ UNCHANGED ingested
    /\ UNCHANGED <<formatVars, walkerVars, aiVars, digestVars, toolVars>>

\* loader.load(labels, cve, digests).await of the CVE arm returns
CveLoaderReturns ==
    /\ ipc = "loader"
    /\ invoked = <<"CveLoader">>
    /\ pc["c1"] = "idle"
    /\ iresult' = IF ret["c1"].status = "Ok"
                  THEN Ok(<<"CveLoader", ret["c1"].document_id>>)
                  ELSE Err("Storage", <<ret["c1"].at>>)
    /\ ipc' = "idle"
    /\ UNCHANGED <<icall, invoked, itx, ingested, ipre, icount>>
    /\ UNCHANGED <<loaderVars, formatVars, walkerVars, aiVars, digestVars, toolVars>>

\* the loaders that get the raw value or the raw bytes deserialize first
LoaderParseFails(l, b) ==
    \/ l = "SpdxLoader" /\ Dialect(b) # "SPDX"
    \/ l = "CweCatalogLoader" /\ Dialect(b) # "Weakness_Catalog"

\* loader.load(...).await of the other arms: a parse error before anything
\* else, or one transaction that commits the document or fails as a whole
LoaderLoad ==
    /\ ipc = "loader"
    /\ invoked # <<"CveLoader">>
    /\ IF LoaderParseFails(invoked[1], icall.stream.bytes)
       THEN /\ iresult' = Err(IF invoked[1] = "SpdxLoader" THEN "Json" ELSE "Xml",
                              <<"invalid document">>)
            /\ UNCHANGED <<itx, ingested>>
       ELSE /\ itx' = itx + 1
            /\ \/ /\ ingested' = ingested \cup {<<invoked[1], icall.stream.bytes>>}
                  /\ iresult' = Ok(<<invoked[1], icall.stream.bytes>>)
               \/ /\ iresult' = Err("Storage", <<"commit">>)
                  /\ UNCHANGED ingested
    /\ ipc' = "idle"
    /\ UNCHANGED <<icall, invoked, ipre, icount>>
    /\ UNCHANGED <<loaderVars, formatVars, walkerVars, aiVars, digestVars, toolVars>>

\* the legacy CveLoader::load(location, record): the record is deserialized
\* from the reader, then the transaction is opened, used and committed
LegacyLoad(stream) ==
    /\ ipc = "idle"
    /\ icount < MaxIngests
    /\ icount' = icount + 1
    /\ icall' = [format |-> "CVE", stream |-> stream, entry |-> "legacy"]
    /\ ipre' = [db |-> db, ingested |-> ingested, loads |-> loads]
    /\ invoked' = <<>>
    /\ IF ~stream.ok \/ ~from_slice("Cve", stream.bytes).ok
       THEN /\ iresult' = Err("Json", <<"invalid record">>)
            /\ itx' = 0
            /\ UNCHANGED ingested
       ELSE /\ itx' = 1
            /\ \/ /\ ingested' = ingested \cup {<<"legacy CveLoader", stream.bytes>>}
                  /\ iresult' = Ok(<<"legacy CveLoader", stream.bytes>>)
               \/ /\ iresult' = Err("Storage", <<"commit">>)
                  /\ UNCHANGED ingested
    /\ UNCHANGED ipc
    /\ UNCHANGED <<loaderVars, formatVars, walkerVars, aiVars, digestVars, toolVars>>

IngestNext ==
    \/ \E f \in Formats, stream \in Streams : FormatLoad(f, stream)
    \/ \E stream \in Streams : LegacyLoad(stream)
    \/ Transaction("c1")
    \/ IngestVulnerability("c1")
    \/ IngestAdvisory("c1")
    \/ LinkToVulnerability("c1")
    \/ DropDescriptions("c1")
    \/ AddDescriptions("c1")
    \/ Commit("c1")
    \/ StorageError("c1")
    \/ CveLoaderReturns
    \/ LoaderLoad

(***************************************************************************)
(* Claims about Format::load, checked under SpecIngest                     *)
(***************************************************************************)
ConcreteFormats ==
    {"OSV", "CSAF", "CVE", "SPDX", "CycloneDX", "ClearlyDefined", "CweCatalog"}

\* the type a document of a format has to deserialize to
DialectOf(f) ==
    CASE f = "CSAF" -> "Csaf"
      [] f = "OSV" -> "Vulnerability"
      [] f = "CVE" -> "Cve"
      [] f = "SPDX" -> "SPDX"
      [] f = "CycloneDX" -> "Bom"
      [] f = "ClearlyDefined" -> "Curation"
      [] f = "CweCatalog" -> "Weakness_Catalog"

\* the last call has returned, its bytes were buffered, and they are not a
\* document of the selected dialect
ParseFailed ==
    /\ ipc = "idle"
    /\ icall # NoIngest
    /\ icall.stream.ok
    /\ icall.format \in ConcreteFormats
    /\ Dialect(icall.stream.bytes) # DialectOf(icall.format)

\* the last call opened no transaction and changed no store
NothingIngested ==
    /\ itx = 0
    /\ "CveLoader" \notin Range(invoked)
    /\ loads = ipre.loads
    /\ tx["c1"] = <<>>
    /\ db = ipre.db
    /\ ingested = ipre.ingested

ParseErrorKinds == {"Json", "Yaml", "Xml"}

\* C26 as stated: the error returned is the deserializer's parse error.
C26_ParseErrorReturned ==
    ParseFailed => /\ ~iresult.ok
                   /\ iresult.kind \in ParseErrorKinds
                   /\ NothingIngested

\* C26, amended: when the buffered bytes fail full deserialization for the
\* selected dialect, the call returns an error and the document is not
\* ingested: no transaction is opened and no store is changed.  The error is
\* the deserializer's, except for a CycloneDX document that is JSON but no
\* valid BOM, which is reported as UnsupportedFormat("Failed to parse: ...").
C26_ParseFailureNotIngested ==
    ParseFailed =>
        /\ ~iresult.ok
        /\ IF /\ icall.format = "CycloneDX"
              /\ icall.entry = "Format::load"
              /\ Syntax(icall.stream.bytes) = "json"
           THEN /\ iresult.kind = "UnsupportedFormat"
                /\ Head(iresult.msg) = "Failed to parse: "
           ELSE iresult.kind \in ParseErrorKinds
        /\ NothingIngested

\* after a document was ingested, a CVE record handed over as CycloneDX is
\* turned down and nothing is opened or stored
C26_Witness ==
    /\ ipc = "idle"
    /\ icall = [format |-> "CycloneDX", stream |-> [ok |-> TRUE, bytes |-> "b1"],
                entry |-> "Format::load"]
    /\ iresult.kind = "UnsupportedFormat"
    /\ ipre.ingested # {}
    /\ ingested = ipre.ingested

UnresolvedFormats == {"Advisory", "SBOM", "Unknown"}

\* C30 as stated: every call on an unresolved variant returns the
\* "Must resolve" error.
C30_UnresolvedAlwaysMustResolve ==
    (ipc = "idle" /\ icall.entry = "Format::load" /\ icall.format \in UnresolvedFormats)
        => /\ iresult = Err("UnsupportedFormat", MustResolve(icall.format))
           /\ invoked = <<>>
           /\ NothingIngested

\* C30, amended: Format::load on an unresolved variant (Advisory, SBOM or
\* Unknown) invokes no loader and leaves the stores unchanged; it returns the
\* UnsupportedFormat error "Must resolve ... to an actual format" once the
\* stream has been read to its end, and the stream's error when reading fails.
C30_UnresolvedInvokesNoLoader ==
    (ipc = "idle" /\ icall.entry = "Format::load" /\ icall.format \in UnresolvedFormats)
        => /\ ~iresult.ok
           /\ IF icall.stream.ok
              THEN /\ iresult.kind = "UnsupportedFormat"
                   /\ iresult.msg = <<"Must resolve ", icall.format, " to an actual format">>
              ELSE iresult.kind = "Io"
           /\ invoked = <<>>
           /\ NothingIngested

\* after a CVE record was loaded and committed, a call with Format::Unknown
\* on a CVE record returns the error and the store is as before
C30_Witness ==
    /\ ipc = "idle"
    /\ icall = [format |-> "Unknown", stream |-> [ok |-> TRUE, bytes |-> "b3"],
                entry |-> "Format::load"]
    /\ iresult.kind = "UnsupportedFormat"
    /\ ipre.db # EmptyGraph
    /\ db = ipre.db

(***************************************************************************)
(* AiService (modules/fundamental/src/ai/service/mod.rs).  A string is    *)
(* the sequence of its pieces, the empty string the empty sequence.        *)
(***************************************************************************)
MaxChats == 1

EnvNames == {"OPENAI_API_KEY", "OPENAI_API_BASE", "OPENAI_MODEL"}

\* a variable of the environment: absent, present with a value that is not
\* valid Unicode, or present with a string value
NotPresent == [set |-> FALSE, unicode |-> TRUE, value |-> <<>>]

NotUnicode == [set |-> TRUE, unicode |-> FALSE, value |-> <<>>]

Val(v) == [set |-> TRUE, unicode |-> TRUE, value |-> v]

Environments ==
    {[k \in EnvNames |->
        CASE k = "OPENAI_API_KEY" -> e[1]
          [] k = "OPENAI_API_BASE" -> e[2]
          [] k = "OPENAI_MODEL" -> e[3]] :
        e \in {NotPresent, NotUnicode, Val(<<>>), Val(<<"ollama">>)}
              \X {NotPresent, NotUnicode, Val(<<"http://localhost:11434/v1">>)}
              \X {NotPresent, Val(<<"llama3.1:70b">>)}}

\* std::env::var(k): Err(NotPresent), Err(NotUnicode(..)) or Ok(value)
env_var(e, k) ==
    IF ~e[k].set THEN Err("NotPresent", <<>>)
    ELSE IF ~e[k].unicode THEN Err("NotUnicode", <<>>)
    ELSE Ok(e[k].value)

\* Result::unwrap_or_else(|_| default)
unwrap_or_else(r, default) == IF r.ok THEN r.value ELSE default

Tools == <<"ProductInfo", "CVEInfo", "AdvisoryInfo">>

\* A plausible slip: an empty key is taken for no key.
NewEmptyKeyDisables(e) ==
    IF ~env_var(e, "OPENAI_API_KEY").ok \/ env_var(e, "OPENAI_API_KEY").value = <<>>
    THEN [llm |-> None, llm_info |-> None, tools |-> <<>>]
    ELSE [llm |-> Some([api_base |-> unwrap_or_else(env_var(e, "OPENAI_API_BASE"),
                                                    <<"https://api.openai.com/v1">>),
                        api_key |-> env_var(e, "OPENAI_API_KEY").value,
                        model |-> unwrap_or_else(env_var(e, "OPENAI_MODEL"), <<"gpt-4o">>),
                        seed |-> 2000]),
          llm_info |-> Some([api_base |-> unwrap_or_else(env_var(e, "OPENAI_API_BASE"),
                                                         <<"https://api.openai.com/v1">>),
                             model |-> unwrap_or_else(env_var(e, "OPENAI_MODEL"),
                                                      <<"gpt-4o">>)]),
          tools |-> Tools]

\* AiService::new(db)
new(e) ==
    IF ~env_var(e, "OPENAI_API_KEY").ok
    THEN [llm |-> None, llm_info |-> None, tools |-> <<>>]
    ELSE [llm |-> Some([api_base |-> unwrap_or_else(env_var(e, "OPENAI_API_BASE"),
                                                    <<"https://api.openai.com/v1">>),
                        api_key |-> env_var(e, "OPENAI_API_KEY").value,
                        model |-> unwrap_or_else(env_var(e, "OPENAI_MODEL"), <<"gpt-4o">>),
                        seed |-> 2000]),
          llm_info |-> Some([api_base |-> unwrap_or_else(env_var(e, "OPENAI_API_BASE"),
                                                         <<"https://api.openai.com/v1">>),
                             model |-> unwrap_or_else(env_var(e, "OPENAI_MODEL"),
                                                      <<"gpt-4o">>)]),
          tools |-> Tools]

\* AiService::enabled
enabled(service) == service.llm # None

\* AiService::llm_info
llm_info(service) == service.llm_info

\* a langchain Message, as far as completions looks at it
Message(type, content) == [message_type |-> type, content |-> content]

\* STANDARD.encode(serde_json::to_vec(&message)): text that is base64 of JSON
Encode(message) == [base64 |-> TRUE, json |-> TRUE, message |-> message]

\* text that is not base64, and base64 of bytes that are no JSON message
NotBase64 == [base64 |-> FALSE, json |-> FALSE, message |-> Message("", <<>>)]

NotJson == [base64 |-> TRUE, json |-> FALSE, message |-> Message("", <<>>)]

\* STANDARD.decode(internal_state)
Decode(text) == IF text.base64 THEN Ok(text) ELSE Err("DecodeError", <<>>)

\* serde_json::from_slice::<Message>(decoded)
MessageFromSlice(decoded) ==
    IF decoded.json THEN Ok(decoded.message) ELSE Err("Json", <<>>)

InternalStates ==
    {None, Some(Encode(Message("AIMessage", <<"answer">>))),
     Some(Encode(Message("ToolMessage", <<"found">>))), Some(NotBase64), Some(NotJson)}

ChatMessages ==
    {[content |-> c, message_type |-> "Human", internal_state |-> st] :
        c \in {<<>>, <<"hi">>}, st \in InternalStates}

Requests == UNION {[1..n -> ChatMessages] : n \in 0..2}

\* what the model does when it is invoked
LlmOutcomes == {"answer", "answer after tool", "ChainError"}

\* the loop over request.messages: the prompt, the memory, and the error that
\* ended it
RECURSIVE Scan(_, _, _)
Scan(messages, prompt, memory) ==
    IF messages = <<>> THEN [error |-> None, prompt |-> prompt, memory |-> memory]
    ELSE LET m == Head(messages)
         IN  IF m.internal_state = None
             THEN Scan(Tail(messages),
                       IF prompt # <<>> THEN prompt \o <<"\n">> \o m.content
                       ELSE prompt \o m.content,
                       memory)
             ELSE IF prompt # <<>>
             THEN [error |-> Some("message with internal_state found after messages without"),
                   prompt |-> prompt, memory |-> memory]
             ELSE IF ~Decode(m.internal_state[1]).ok
             THEN [error |-> Some("invalid internal_state"),
                   prompt |-> prompt, memory |-> memory]
             ELSE IF ~MessageFromSlice(Decode(m.internal_state[1]).value).ok
             THEN [error |-> Some("internal_state failed to decode"),
                   prompt |-> prompt, memory |-> memory]
             ELSE Scan(Tail(messages), prompt,
                       Append(memory, MessageFromSlice(Decode(m.internal_state[1]).value).value))

\* executor.invoke: the messages the agent leaves in the memory
Invoke(memory, prompt, outcome) ==
    memory \o <<Message("HumanMessage", prompt)>>
           \o (IF outcome = "answer after tool"
               THEN <<Message("ToolMessage", <<"found">>)>> ELSE <<>>)
           \o <<Message("AIMessage", <<"answer">>)>>

\* the loop over memory.messages(): tool messages are skipped
Response(memory) ==
    LET kept == SelectSeq(memory, LAMBDA m : m.message_type # "ToolMessage")
    IN  [i \in DOMAIN kept |->
            [content |-> kept[i].content,
             message_type |->
                 CASE kept[i].message_type = "HumanMessage" -> "Human"
                   [] kept[i].message_type = "AIMessage" -> "Ai"
                   [] kept[i].message_type = "SystemMessage" -> "System"
                   [] OTHER -> "Tool",
             internal_state |-> Some(Encode(kept[i]))]]

\* A plausible slip: the agent is invoked with the messages read so far before
\* the error of the loop is looked at.
CompletionsInvokesFirst(service, request, outcome) ==
    IF service.llm = None
    THEN [result |-> Err("NotFound", <<"AI service is not enabled">>), invokes |-> 0]
    ELSE IF Scan(request, <<>>, <<>>).error # None
    THEN [result |-> Err("BadRequest", Scan(request, <<>>, <<>>).error), invokes |-> 1]
    ELSE IF outcome = "ChainError"
    THEN [result |-> Err("ChainError", <<>>), invokes |-> 1]
    ELSE [result |-> Ok(Response(Invoke(Scan(request, <<>>, <<>>).memory,
                                        Scan(request, <<>>, <<>>).prompt, outcome))),
          invokes |-> 1]

\* AiService::completions(request, tx): the result, and how often the model
\* was invoked
completions(service, request, outcome) ==
    IF service.llm = None
    THEN [result |-> Err("NotFound", <<"AI service is not enabled">>), invokes |-> 0]
    ELSE IF Scan(request, <<>>, <<>>).error # None
    THEN [result |-> Err("BadRequest", Scan(request, <<>>, <<>>).error), invokes |-> 0]
    ELSE IF outcome = "ChainError"
    THEN [result |-> Err("ChainError", <<>>), invokes |-> 1]
    ELSE [result |-> Ok(Response(Invoke(Scan(request, <<>>, <<>>).memory,
                                        Scan(request, <<>>, <<>>).prompt, outcome))),
          invokes |-> 1]

Unbuilt == [llm |-> None, llm_info |-> None, tools |-> <<>>]

AiIdle ==
    /\ env = [k \in EnvNames |-> NotPresent]
    /\ aiService = Unbuilt
    /\ aipc = "start"
    /\ areq = <<>>
    /\ aresult = NoFormatResult
    /\ invokes = 0
    /\ chats = 0

AiInit ==
    /\ env \in Environments
    /\ aiService = Unbuilt
    /\ aipc = "start"
    /\ areq = <<>>
    /\ aresult = NoFormatResult
    /\ invokes = 0
    /\ chats = 0

\* let service = AiService::new(db)
AiNew ==
    /\ aipc = "start"
    /\ aiService' = new(env)
    /\ aipc' = "ready"
    /\ UNCHANGED <<env, areq, aresult, invokes, chats>>
    /\ UNCHANGED <<loaderVars, formatVars, walkerVars, ingestVars, digestVars, toolVars>>

\* service.completions(&request, ()).await
Completions(request, outcome) ==
    /\ aipc = "ready"
    /\ chats < MaxChats
    /\ chats' = chats + 1
    /\ areq' = request
    /\ aresult' = completions(aiService, request, outcome).result
    /\ invokes' = completions(aiService, request, outcome).invokes
    /\ UNCHANGED <<env, aiService, aipc>>
    /\ UNCHANGED <<loaderVars, formatVars, walkerVars, ingestVars, digestVars, toolVars>>

AiNext ==
    \/ AiNew
    \/ \E request \in Requests, outcome \in LlmOutcomes : Completions(request, outcome)

(***************************************************************************)
(* Claims about AiService, checked under SpecAi                            *)
(***************************************************************************)
\* what a disabled service looks like from outside
LooksDisabled ==
    /\ ~enabled(aiService)
    /\ aiService.tools = <<>>
    /\ llm_info(aiService) = None
    /\ chats > 0 => /\ ~aresult.ok
                    /\ aresult.kind = "NotFound"
                    /\ aresult.msg = <<"AI service is not enabled">>
                    /\ invokes = 0

\* what an enabled service looks like from outside
LooksEnabled ==
    /\ enabled(aiService)
    /\ Len(aiService.tools) = 3
    /\ llm_info(aiService) # None
    /\ chats > 0 => (aresult.ok \/ aresult.kind # "NotFound")

\* C28 as stated: the service is disabled exactly when the variable is not set.
C28_DisabledIffKeyNotSet ==
    aipc = "ready" =>
        IF ~env["OPENAI_API_KEY"].set THEN LooksDisabled ELSE LooksEnabled

\* C28, amended: the AI service is disabled exactly when OPENAI_API_KEY is
\* not set or its value is not valid Unicode: then enabled() is false, the
\* tool list is empty, llm_info() is none, and every completions call returns
\* the NotFound error "AI service is not enabled" without invoking a model;
\* with any other value, the empty string included, the service is enabled.
C28_DisabledIffKeyUnreadable ==
    aipc = "ready" =>
        IF ~env["OPENAI_API_KEY"].set \/ ~env["OPENAI_API_KEY"].unicode
        THEN LooksDisabled
        ELSE LooksEnabled

\* the key is set to bytes that are no Unicode text, and a completions call
\* with a well-formed request was turned down
C28_Witness ==
    /\ aipc = "ready"
    /\ env["OPENAI_API_KEY"] = NotUnicode
    /\ chats = 1
    /\ Len(areq) = 1
    /\ areq[1].internal_state = None
    /\ areq[1].content # <<>>
    /\ aresult.kind = "NotFound"

(***************************************************************************)
(* Format::from_bytes feeding Format::load, checked under SpecFormat       *)
(***************************************************************************)
\* the call of load on format f ends with the "Must resolve" error
FailsMustResolve(f, stream) ==
    /\ load(f, stream).loader = None
    /\ ~load(f, stream).result.ok
    /\ load(f, stream).result.kind = "UnsupportedFormat"
    /\ Head(load(f, stream).result.msg) = "Must resolve "

\* C32: every successful result of Format::from_bytes is one of the seven
\* concrete dialects and never an umbrella variant (Advisory, SBOM, Unknown);
\* hence Format::load on a value returned by from_bytes never fails with the
\* "Must resolve" error, whatever the stream.
C32_FromBytesIsConcrete ==
    (fpc = "done" /\ fresult.ok) =>
        /\ fresult.value \in ConcreteFormats
        /\ fresult.value \notin UnresolvedFormats
        /\ \A stream \in Streams : ~FailsMustResolve(fresult.value, stream)

\* from_bytes fell through both families and answered with the last dialect
C32_Witness ==
    /\ fpc = "done"
    /\ fresult.ok
    /\ fresult.value = "CweCatalog"
    /\ Len(probed) = 7
    /\ load(fresult.value, [ok |-> TRUE, bytes |-> "cwe1"]).loader = Some("CweCatalogLoader")

(***************************************************************************)
(* The descriptions of other advisories, checked under SpecLoad            *)
(***************************************************************************)
\* the number of copies of row d in the description table of store g
RowCount(g, d) ==
    IF d \in BagToSet(g.vulnerability_description)
    THEN g.vulnerability_description[d] ELSE 0

\* a committing load changes no description row owned by another advisory
C33_OtherAdvisoriesKept ==
    \A p \in Procs :
        (Returns(p) /\ ret'[p].status = "Ok") =>
            \A d \in BagToSet(db.vulnerability_description)
                     \cup BagToSet(db'.vulnerability_description) :
                d.advisory_id # call[p].advisory => RowCount(db', d) = RowCount(db, d)

\* two committed documents of one identifier with different digests both have
\* their descriptions stored, each under its own advisory
C33_BothVersionsStored ==
    \A b1, b2 \in SourceBytes :
        (/\ b1 # b2
         /\ ParseCve(b1).id = ParseCve(b2).id
         /\ okCount[b1] > 0
         /\ okCount[b2] > 0)
        => \E a1, a2 \in db.advisory :
              /\ a1.sha256 = Sha256(b1)
              /\ a2.sha256 = Sha256(b2)
              /\ a1.id # a2.id
              /\ \A lang \in Languages :
                    /\ StoredIn(db, ParseCve(b1).id, a1.id, lang)
                         = Cardinality({i \in DOMAIN SuppliedEntries(ParseCve(b1)) :
                                           SuppliedEntries(ParseCve(b1))[i][1] = lang})
                    /\ StoredIn(db, ParseCve(b2).id, a2.id, lang)
                         = Cardinality({i \in DOMAIN SuppliedEntries(ParseCve(b2)) :
                                           SuppliedEntries(ParseCve(b2))[i][1] = lang})

\* C33: CveLoader::load for advisory A leaves unchanged every description of
\* the vulnerability that is owned by a different advisory: the drop removes
\* only the descriptions owned by A's advisory id, so after two documents of
\* one identifier with different digests were ingested, the descriptions of
\* both advisory records are stored on the vulnerability.
C33_DropOnlyOwnDescriptions ==
    [](C33_BothVersionsStored) /\ [][C33_OtherAdvisoriesKept]_vars

\* the one-entry and the two-entry document of CVE-1 were both committed, the
\* one-entry document twice, and all three rows are stored
C33_Witness ==
    /\ okCount["b1"] = 2
    /\ okCount["b2"] = 1
    /\ okCount["b3"] = 0
    /\ BagCardinality(db.vulnerability_description) = 3
    /\ Cardinality(db.advisory) = 2

(***************************************************************************)
(* The messages of a completions request, checked under SpecAi             *)
(***************************************************************************)
Stateful(m) == m.internal_state # None

\* a message with internal_state comes after a message without
StatefulAfterStateless(request) ==
    \E i, j \in DOMAIN request :
        j < i /\ Stateful(request[i]) /\ ~Stateful(request[j])

\* a message with internal_state comes after a message without whose content
\* is not empty
StatefulAfterText(request) ==
    \E i, j \in DOMAIN request :
        j < i /\ Stateful(request[i]) /\ ~Stateful(request[j]) /\ request[j].content # <<>>

\* an internal_state that is no base64 text or no encoded message
Undecodable(request) ==
    \E i \in DOMAIN request :
        /\ Stateful(request[i])
        /\ ~(request[i].internal_state[1].base64 /\ request[i].internal_state[1].json)

MaxBytes == 3

MaxReads == 2

Sources == UNION {[1..n -> {"d", " ", "x"}] : n \in 0..MaxBytes}

\* the SHA-256 of a byte sequence (distinct sequences, distinct digests)
Digest(bytes) == [sha256 |-> <<"sha256">> \o bytes]

\* Read::read on the source: the next byte, the end, or an I/O error at the
\* read numbered failAt
Read(c, n) ==
    IF c.failAt = n + 1 THEN [kind |-> "error", byte |-> ""]
    ELSE IF n < Len(c.src) THEN [kind |-> "byte", byte |-> c.src[n + 1]]
    ELSE [kind |-> "eof", byte |-> ""]

\* A plausible slip: the value is deserialized without the check for trailing
\* characters, and the parser stops at the end of the value.
FromReaderStepNoEnd(state, r) ==
    CASE r.kind = "error" -> [state |-> state, done |-> TRUE, ok |-> FALSE]
      [] r.kind = "eof" -> [state |-> state, done |-> TRUE, ok |-> FALSE]
      [] r.kind = "byte" /\ r.byte = " " -> [state |-> state, done |-> FALSE, ok |-> FALSE]
      [] r.kind = "byte" /\ r.byte = "d" -> [state |-> "after", done |-> TRUE, ok |-> TRUE]
      [] OTHER -> [state |-> state, done |-> TRUE, ok |-> FALSE]

\* serde_json::from_reader, one read at a time: white space is skipped, the
\* value is read, and after the value the reader is read to its end, anything
\* but white space there being an error ("trailing characters")
FromReaderStep(state, r) ==
    CASE r.kind = "error" -> [state |-> state, done |-> TRUE, ok |-> FALSE]
      [] r.kind = "eof" -> [state |-> state, done |-> TRUE, ok |-> (state = "after")]
      [] r.kind = "byte" /\ r.byte = " " -> [state |-> state, done |-> FALSE, ok |-> FALSE]
      [] r.kind = "byte" /\ r.byte = "d" /\ state = "before" ->
           [state |-> "after", done |-> FALSE, ok |-> FALSE]
      [] OTHER -> [state |-> state, done |-> TRUE, ok |-> FALSE]

NoRead == [entry |-> "", src |-> <<>>, failAt |-> 0]

DigestIdle ==
    /\ dcall = NoRead
    /\ dpc = "idle"
    /\ rpos = 0
    /\ hashed = <<>>
    /\ eof = FALSE
    /\ pstate = "before"
    /\ hashes = None
    /\ dresult = NoFormatResult
    /\ dcount = 0

\* let mut reader = HashingRead::new(record)
Open(entry, src, failAt) ==
    /\ dpc = "idle"
    /\ dcount < MaxReads
    /\ dcount' = dcount + 1
    /\ dcall' = [entry |-> entry, src |-> src, failAt |-> failAt]
    /\ dpc' = "from_reader"
    /\ rpos' = 0
    /\ hashed' = <<>>
    /\ eof' = FALSE
    /\ pstate' = "before"
    /\ hashes' = None
    /\ dresult' = NoFormatResult
    /\ UNCHANGED <<loaderVars, formatVars, walkerVars, ingestVars, aiVars, toolVars>>

\* serde_json::from_reader(&mut reader): one read through the HashingRead
ReadStep ==
    /\ dpc = "from_reader"
    /\ LET r == Read(dcall, rpos)
           st == FromReaderStep(pstate, r)
       IN  /\ rpos' = IF r.kind = "byte" THEN rpos + 1 ELSE rpos
           /\ hashed' = IF r.kind = "byte" THEN Append(hashed, r.byte) ELSE hashed
           /\ eof' = (r.kind = "eof")
           /\ pstate' = st.state
           /\ IF ~st.done THEN UNCHANGED <<dpc, dresult>>
              ELSE IF st.ok
              THEN /\ dpc' = IF dcall.entry = "legacy" THEN "transaction" ELSE "finish"
                   /\ UNCHANGED dresult
              ELSE /\ dpc' = "idle"
                   /\ dresult' = Err("Json", <<"invalid record">>)
    /\ UNCHANGED <<dcall, hashes, dcount>>
    /\ UNCHANGED <<loaderVars, formatVars, walkerVars, ingestVars, aiVars, toolVars>>

\* legacy load: transaction, ingest_vulnerability, set_title, add_description
LegacyGraph ==
    /\ dpc = "transaction"
    /\ \/ /\ dpc' = "hashes"
          /\ UNCHANGED dresult
       \/ /\ dpc' = "idle"
          /\ dresult' = Err("Storage", <<"ingest_vulnerability">>)
    /\ UNCHANGED <<dcall, rpos, hashed, eof, pstate, hashes, dcount>>
    /\ UNCHANGED <<loaderVars, formatVars, walkerVars, ingestVars, aiVars, toolVars>>

\* legacy load: let hashes = reader.hashes(); let sha256 = hex::encode(..)
Hashes ==
    /\ dpc = "hashes"
    /\ hashes' = Some(Digest(hashed))
    /\ dpc' = "ingest_advisory"
    /\ UNCHANGED <<dcall, rpos, hashed, eof, pstate, dresult, dcount>>
    /\ UNCHANGED <<loaderVars, formatVars, walkerVars, ingestVars, aiVars, toolVars>>

\* legacy load: ingest_advisory(id, location, sha256, &tx), the link, the commit;
\* the result carries the digest the advisory was stored under
LegacyCommit ==
    /\ dpc = "ingest_advisory"
    /\ \/ dresult' = Ok(hashes[1])
       \/ dresult' = Err("Storage", <<"commit">>)
    /\ dpc' = "idle"
    /\ UNCHANGED <<dcall, rpos, hashed, eof, pstate, hashes, dcount>>
    /\ UNCHANGED <<loaderVars, formatVars, walkerVars, ingestVars, aiVars, toolVars>>

\* document(): Ok(v) => match reader.finish() { Ok(digests) => Ok((v, digests)), .. }
Finish ==
    /\ dpc = "finish"
    /\ \/ /\ hashes' = Some(Digest(hashed))
          /\ dresult' = Ok(Digest(hashed))
       \/ /\ dresult' = Err("Io", <<"finish">>)
          /\ UNCHANGED hashes
    /\ dpc' = "idle"
    /\ UNCHANGED <<dcall, rpos, hashed, eof, pstate, dcount>>
    /\ UNCHANGED <<loaderVars, formatVars, walkerVars, ingestVars, aiVars, toolVars>>

DigestNext ==
    \/ \E entry \in {"legacy", "document"}, src \in Sources, failAt \in 0..MaxBytes :
          Open(entry, src, failAt)
    \/ ReadStep
    \/ LegacyGraph
    \/ Hashes
    \/ LegacyCommit
    \/ Finish

\* C31: the digest attached to an ingested document is taken only after the
\* byte source has been read to exhaustion: in the legacy load and in
\* document() the digest set is requested after the parser has consumed the
\* whole stream and the source has reported its end, so it is the digest of
\* every byte of the source; a call that returns a document returns it with
\* that digest, and a call whose parse failed asks for no digest.
C31_DigestAfterExhaustion ==
    /\ hashes # None =>
          /\ eof
          /\ rpos = Len(dcall.src)
          /\ hashed = dcall.src
          /\ hashes = Some([sha256 |-> <<"sha256">> \o dcall.src])
    /\ (dpc = "idle" /\ dresult.ok) =>
          /\ hashes # None
          /\ dresult.value = [sha256 |-> <<"sha256">> \o dcall.src]
    /\ (dpc = "idle" /\ ~dresult.ok /\ dresult.kind = "Json") => hashes = None

\* the legacy load returned the digest of a source that goes on with white
\* space after the document value
C31_Witness ==
    /\ dpc = "idle"
    /\ dcall.entry = "legacy"
    /\ dcall.src = <<" ", "d", " ">>
    /\ dresult.ok
    /\ hashes = Some(Digest(<<" ", "d", " ">>))

(***************************************************************************)
(* The CVEInfo tool (modules/fundamental/src/ai/service/tools.rs).  The    *)
(* VulnerabilityService behind it is not part of the sources at hand: a    *)
(* fetch finds the vulnerability with exactly the identifier asked for, a  *)
(* search the vulnerabilities whose identifier or title holds the query.   *)
(* An answer is the sequence of its lines, a line its label and its value. *)
(***************************************************************************)
MaxRuns == 2

Vulnerabilities ==
    {[identifier |-> "CVE-2021-44228", title |-> Some("log4j"), description |-> Some("RCE"),
      average_score |-> Some("10"), released |-> None],
     [identifier |-> "CVE-2021-45046", title |-> Some("log4j"), description |-> None,
      average_score |-> None, released |-> Some("2021-12-14")],
     [identifier |-> "CVE-2024-28111", title |-> None, description |-> None,
      average_score |-> None, released |-> None]}

\* the inputs: strings, and a JSON value that is no string
ToolInputs ==
    {Str("CVE-2021-44228"), Str("CVE-2024-28111"), Str("CVE-2021"), Str("CVE"), Str("log4j"),
     Str("28111"), Str("openssl"), Num}

\* the queries a vulnerability is found by
FoundBy(v) ==
    {v.identifier, "CVE"}
    \cup (IF v.title # None THEN {v.title[1]} ELSE {})
    \cup (IF v.identifier \in {"CVE-2021-44228", "CVE-2021-45046"} THEN {"CVE-2021"} ELSE {})
    \cup (IF v.identifier = "CVE-2024-28111" THEN {"28111"} ELSE {})

\* the vulnerabilities in the order the service lists them
Listed ==
    << [identifier |-> "CVE-2021-44228", title |-> Some("log4j"), description |-> Some("RCE"),
        average_score |-> Some("10"), released |-> None],
       [identifier |-> "CVE-2021-45046", title |-> Some("log4j"), description |-> None,
        average_score |-> None, released |-> Some("2021-12-14")],
       [identifier |-> "CVE-2024-28111", title |-> None, description |-> None,
        average_score |-> None, released |-> None] >>

\* service.fetch_vulnerability(identifier, ())
fetch_vulnerability(known, identifier) ==
    IF \E v \in known : v.identifier = identifier
    THEN Some(CHOOSE v \in known : v.identifier = identifier)
    ELSE None

\* service.fetch_vulnerabilities(Query { q, .. }, .., ()).items
fetch_vulnerabilities(known, q) ==
    SelectSeq(Listed, LAMBDA v : v \in known /\ q \in FoundBy(v))

\* input.as_str()
as_str(v) == IF v.t = "str" THEN Some(v.s) ELSE None

Line(label, value) == [label |-> label, value |-> value]

\* if let Some(v) = field { writeln!(result, "<label>: {}", v) }
Optional(label, field) == IF field # None THEN <<Line(label, field[1])>> ELSE <<>>

\* the loop over results.items: identifier and title of every candidate
RECURSIVE Candidates(_)
Candidates(items) ==
    IF items = <<>> THEN <<>>
    ELSE <<Line("* Identifier", Head(items).identifier)>>
         \o Optional("  Title", Head(items).title)
         \o Candidates(Tail(items))

\* the lines written for the vulnerability that was found (the packages of
\* its advisories are left out: only the heading is written)
Details(vuln, input) ==
    <<Line("But it had a different identifier", vuln.identifier)>>
    \o (IF vuln.identifier # input THEN <<Line("Identifier", vuln.identifier)>> ELSE <<>>)
    \o <<Line("Identifier", vuln.identifier)>>
    \o Optional("Title", vuln.title)
    \o Optional("Description", vuln.description)
    \o Optional("Severity", vuln.average_score)
    \o Optional("Score", vuln.average_score)
    \o Optional("Released", vuln.released)
    \o <<Line("Affected Packages", "")>>

\* CVEInfo::run(input).  later is what the service knows when the one search
\* match is fetched again.
run(input, known, later) ==
    IF as_str(input) = None THEN Err("Error", <<"Input should be a string">>)
    ELSE IF fetch_vulnerability(known, as_str(input)[1]) # None
    THEN Ok(Details(fetch_vulnerability(known, as_str(input)[1])[1], as_str(input)[1]))
    ELSE IF Len(fetch_vulnerabilities(known, as_str(input)[1])) = 0
    THEN Err("Error", <<"I don't know">>)
    ELSE IF Len(fetch_vulnerabilities(known, as_str(input)[1])) > 1
    THEN Ok(<<Line("There are multiple advisories that match", "")>>
            \o Candidates(fetch_vulnerabilities(known, as_str(input)[1])))
    ELSE IF fetch_vulnerability(
                later, fetch_vulnerabilities(known, as_str(input)[1])[1].identifier) = None
    THEN Err("Error", <<"I don't know">>)
    ELSE Ok(<<Line("There is one advisory that matches", "")>>
            \o Details(fetch_vulnerability(
                           later,
                           fetch_vulnerabilities(known, as_str(input)[1])[1].identifier)[1],
                       as_str(input)[1]))

ToolIdle ==
    /\ tdb = {}
    /\ tin = Num
    /\ tresult = NoFormatResult
    /\ tcount = 0

ToolInit ==
    /\ tdb \in SUBSET Vulnerabilities
    /\ tin = Num
    /\ tresult = NoFormatResult
    /\ tcount = 0

\* tool.run(input).await; a vulnerability may be removed between the search
\* and the second fetch
Run(input, removed) ==
    /\ tcount < MaxRuns
    /\ tcount' = tcount + 1
    /\ tin' = input
    /\ tresult' = run(input, tdb, tdb \ removed)
    /\ tdb' = tdb \ removed
    /\ UNCHANGED <<loaderVars, formatVars, walkerVars, ingestVars, aiVars, digestVars>>

ToolNext ==
    \E input \in ToolInputs, removed \in {{}} \cup {{v} : v \in Vulnerabilities} :
        Run(input, removed)

\* the lines of an answer that carry the label
LinesOf(answer, label) == {i \in DOMAIN answer : answer[i].label = label}

\* the vulnerabilities a query matches: the one of that identifier, or else
\* the ones the search finds
Matches(known, q) ==
    IF fetch_vulnerability(known, q) # None
    THEN {fetch_vulnerability(known, q)[1]}
    ELSE {v \in known : q \in FoundBy(v)}

\* an answer says "had a different identifier" only of an identifier that is
\* not the input, and an answer with details has one "Identifier:" line
C35_AnswerWellFormed ==
    (tcount > 0 /\ tresult.ok) =>
        /\ \A i \in LinesOf(tresult.value, "But it had a different identifier") :
              tresult.value[i].value # tin.s
        /\ LinesOf(tresult.value, "Affected Packages") # {}
              => Cardinality(LinesOf(tresult.value, "Identifier")) = 1

\* a run with no match fails with "I don't know", a run with more than one
\* match returns the candidates and nothing else
C35_NoMatchAndManyMatches ==
    (tcount' = tcount + 1 /\ tin'.t = "str") =>
        /\ Matches(tdb, tin'.s) = {} =>
              ~tresult'.ok /\ tresult'.msg = <<"I don't know">>
        /\ Cardinality(Matches(tdb, tin'.s)) > 1 =>
              /\ tresult'.ok
              /\ LinesOf(tresult'.value, "* Identifier") # {}
              /\ \A i \in DOMAIN tresult'.value :
                    tresult'.value[i].label \in
                        {"There are multiple advisories that match", "* Identifier", "  Title"}
              /\ {tresult'.value[i].value : i \in LinesOf(tresult'.value, "* Identifier")}
                    = {v.identifier : v \in Matches(tdb, tin'.s)}

\* C35: the CVEInfo tool says that the vulnerability "had a different
\* identifier" only when the identifier of the vulnerability it reports
\* differs from the input, and it writes the "Identifier:" line exactly once
\* per answer; with no match at all it fails with "I don't know", and with
\* more than one search match it returns only the list of candidates.
C35_DifferentIdentifierOnlyWhenDifferent ==
    [](C35_AnswerWellFormed) /\ [][C35_NoMatchAndManyMatches]_vars

(***************************************************************************)
(* Specifications                                                          *)
(***************************************************************************)
InitLoad == LoaderInit /\ FormatIdle /\ WalkerIdle /\ IngestIdle /\ AiIdle /\ DigestIdle /\ ToolIdle

SpecLoad == InitLoad /\ [][LoaderNext]_vars

InitFormat == LoaderInit /\ FormatInit /\ WalkerIdle /\ IngestIdle /\ AiIdle /\ DigestIdle /\ ToolIdle

SpecFormat == InitFormat /\ [][FormatNext]_vars

InitWalk == LoaderInit /\ FormatIdle /\ WalkerIdle /\ IngestIdle /\ AiIdle /\ DigestIdle /\ ToolIdle

SpecWalk == InitWalk /\ [][WalkerNext]_vars

InitIngest == LoaderInit /\ FormatIdle /\ WalkerIdle /\ IngestIdle /\ AiIdle /\ DigestIdle /\ ToolIdle

SpecIngest == InitIngest /\ [][IngestNext]_vars

InitAi ==
    LoaderInit /\ FormatIdle /\ WalkerIdle /\ IngestIdle /\ AiInit /\ DigestIdle /\ ToolIdle

SpecAi == InitAi /\ [][AiNext]_vars

InitDigest == LoaderInit /\ FormatIdle /\ WalkerIdle /\ IngestIdle /\ AiIdle /\ DigestIdle /\ ToolIdle

SpecDigest == InitDigest /\ [][DigestNext]_vars

InitTool == LoaderInit /\ FormatIdle /\ WalkerIdle /\ IngestIdle /\ AiIdle /\ DigestIdle /\ ToolInit

SpecTool == InitTool /\ [][ToolNext]_vars
====
